---- MODULE Spec2Model ----
(***************************************************************************)
(* Model of the schema-intelligence core of sqlgen: the TTL/LRU cache      *)
(* (services/cache_service.py), the schema introspector, the join-path     *)
(* search, the join edges and the schema hash (utils/schema_analyzer.py),  *)
(* the relevance ranker and the schema context (utils/retrieval.py), the   *)
(* database service (services/database_service.py) and the schema pass of  *)
(* generate_sql (services/sql_generation_service.py).                      *)
(***************************************************************************)
EXTENDS Integers, Sequences, FiniteSets, TLC

VARIABLES
    max_size,       \* CacheService._max_size, the constructor's argument
    cache,          \* CacheService._cache: the dict, in insertion order
    now,            \* the clock read by time.time()
    last_cleanup,   \* CacheService._last_cleanup
    op,             \* the last completed call: [name, key, result, outcome]
    lock,           \* CacheService._lock: its holder, or NoThread
    pc,             \* per thread: the position inside its set() call
    calls,          \* the number of set() calls made by the threads so far
    catalog,        \* what the database's inspector reports (introspection input)
    schema,         \* the DatabaseSchema the functions of the core are applied to
    call,           \* the last call of a function of the core, with its result
    current_db,     \* DatabaseService._current_db: <<>> for None, else <<db>>
    connection_info,\* DatabaseService._connection_info: <<>> for {}, else <<info>>
    passes          \* the number of introspection passes made so far

cacheVars == <<max_size, cache, now, last_cleanup, op>>
threadVars == <<lock, pc, calls>>
coreVars == <<catalog, schema, call>>
serviceVars == <<current_db, connection_info, passes>>
vars ==
    <<max_size, cache, now, last_cleanup, op, lock, pc, calls, catalog, schema, call,
      current_db, connection_info, passes>>

(***************************************************************************)
(* Bounds of the cache model.                                              *)
(***************************************************************************)
cleanup_interval == 2
MaxTime == 3
MaxAccess == 2

MaxSizes == {1, 2}
Keys == {<<"a">>, <<"a", "b">>, <<"b">>}
Prefixes == {<<>>, <<"a">>, <<"b">>}
None == "None"
\* the (value, ttl_seconds) pairs that set() is called with; value is Any, and
\* None is a value like another
SetArgs == {<<"v1", 1>>, <<None, 2>>}
NoThread == "none"

Min(a, b) == IF a < b THEN a ELSE b
Max(a, b) == IF a > b THEN a ELSE b

(***************************************************************************)
(* CacheEntry                                                              *)
(***************************************************************************)
CacheEntry(key, value, ttl_seconds, t) ==
    [key |-> key, value |-> value, created_at |-> t, last_accessed |-> t,
     ttl_seconds |-> ttl_seconds, access_count |-> 0]

is_expired_sliding(e, t) == t - e.last_accessed > e.ttl_seconds

is_expired(e, t) == t - e.created_at > e.ttl_seconds

access_count_only(e, t) == [e EXCEPT !.access_count = @ + 1]

access(e, t) == [e EXCEPT !.last_accessed = t, !.access_count = @ + 1]

(***************************************************************************)
(* The dict CacheService._cache as a sequence of entries with distinct     *)
(* keys, in insertion order.                                               *)
(***************************************************************************)
KeysOf(c) == {c[i].key : i \in 1..Len(c)}

IndexOf(c, k) == CHOOSE i \in 1..Len(c) : c[i].key = k

Lookup(c, k) == c[IndexOf(c, k)]

RECURSIVE Filter(_, _)
Filter(c, keep) ==
    IF c = <<>> THEN <<>>
    ELSE IF Head(c).key \in keep THEN <<Head(c)>> \o Filter(Tail(c), keep)
    ELSE Filter(Tail(c), keep)

DictDel(c, k) == Filter(c, KeysOf(c) \ {k})

DictPut(c, e) ==
    IF e.key \in KeysOf(c)
    THEN [c EXCEPT ![IndexOf(c, e.key)] = e]
    ELSE Append(c, e)

(***************************************************************************)
(* CacheService._cleanup_expired: <<store, _last_cleanup>> after the call. *)
(***************************************************************************)
cleanup_expired(c, lc, t) ==
    IF t - lc < cleanup_interval
    THEN <<c, lc>>
    ELSE <<Filter(c, {c[i].key : i \in {j \in 1..Len(c) : ~is_expired(c[j], t)}}), t>>

(***************************************************************************)
(* CacheService._evict_if_needed.  sorted() is stable: an entry's place in *)
(* sorted_entries is the number of entries accessed strictly earlier plus  *)
(* the number of equally old entries that precede it in the dict.          *)
(***************************************************************************)
SortRank(c, i) ==
    Cardinality({j \in 1..Len(c) : c[j].last_accessed < c[i].last_accessed})
    + Cardinality({j \in 1..(i - 1) : c[j].last_accessed = c[i].last_accessed})

evict_one(c) == 1

evict_count(c) == Max(1, Len(c) \div 5)

needs_eviction_off_by_one(c) == Len(c) > max_size

needs_eviction_early(c) == Len(c) + 1 >= max_size

needs_eviction(c) == Len(c) >= max_size

evict_pass(c) ==
    Filter(c, {c[i].key : i \in {j \in 1..Len(c) : SortRank(c, j) >= evict_count(c)}})

evict_if_needed(c) == IF needs_eviction(c) THEN evict_pass(c) ELSE c

(***************************************************************************)
(* The calls of CacheService, one at a time (each runs to completion).     *)
(***************************************************************************)
Threads == {"t1", "t2"}

NotCalling ==
    [at |-> "idle", key |-> <<>>, value |-> None, ttl_seconds |-> 0, current_time |-> 0]

Idle == [t \in Threads |-> NotCalling]

\* the number of set() calls all threads make in a run of the concurrent model
MaxCalls == 3

NoCall == [name |-> "init", key |-> <<>>, result |-> None, outcome |-> "none", touched |-> 0]

CacheInit ==
    /\ max_size \in MaxSizes
    /\ cache = <<>>
    /\ now = 0
    /\ last_cleanup = 0
    /\ op = NoCall

ThreadInit ==
    /\ lock = NoThread
    /\ pc = Idle
    /\ calls = 0

\* no database inspected, no schema built, no function of the core called
NoCatalog == <<>>
NoSchema == [tables |-> <<>>, relationships |-> <<>>, total_tables |-> 0]
NoResult == [absent |-> TRUE, path |-> <<>>]
NoCoreCall == [fn |-> "none"]

CoreIdle ==
    /\ catalog = NoCatalog
    /\ schema = NoSchema
    /\ call = NoCoreCall

\* DatabaseService.__init__: no connection, no connection info
ServiceIdle ==
    /\ current_db = <<>>
    /\ connection_info = <<>>
    /\ passes = 0

Init ==
    /\ CacheInit
    /\ ThreadInit
    /\ CoreIdle
    /\ ServiceIdle

Swept == cleanup_expired(cache, last_cleanup, now)

\* what get(k) returns at time t from the store c it finds after the sweep
get_returns(c, k, t) ==
    IF k \notin KeysOf(c) THEN None
    ELSE IF is_expired(Lookup(c, k), t) THEN None
    ELSE Lookup(c, k).value

exists_ignoring_expiry(c, k, t) == k \in KeysOf(c)

\* what exists(k) returns at time t from the store c it finds after the sweep
exists_returns(c, k, t) ==
    ~(k \notin KeysOf(c) \/ is_expired(Lookup(c, k), t))

\* CacheService.get: what the call does to the store
get(k) ==
    LET c == Swept[1]
        hit == k \in KeysOf(c) /\ ~is_expired(Lookup(c, k), now)
    IN  /\ hit => Lookup(c, k).access_count < MaxAccess
        /\ last_cleanup' = Swept[2]
        /\ cache' = IF k \notin KeysOf(c) THEN c
                    ELSE IF is_expired(Lookup(c, k), now) THEN DictDel(c, k)
                    ELSE DictPut(c, access(Lookup(c, k), now))
        /\ op' = [name |-> "get", key |-> k,
                  result |-> get_returns(c, k, now),
                  outcome |-> IF hit THEN "hit"
                              ELSE IF k \in KeysOf(cache) THEN "expired" ELSE "miss",
                  touched |-> IF k \in KeysOf(cache)
                              THEN Lookup(cache, k).access_count ELSE 0]

\* CacheService.get, called by a client of the cache
Get(k) ==
    /\ get(k)
    /\ UNCHANGED <<max_size, now, threadVars, coreVars, serviceVars>>

\* what a set of key k does to the store c it finds after the sweep
set_outcome(c, k) ==
    IF needs_eviction(c)
    THEN (IF k \in KeysOf(c) THEN "evicted_for_known_key" ELSE "evicted_for_new_key")
    ELSE (IF k \in KeysOf(c) THEN "replaced" ELSE "admitted")

\* CacheService.set: what the call does to the store
set(k, v, ttl) ==
    /\ last_cleanup' = Swept[2]
    /\ cache' = DictPut(evict_if_needed(Swept[1]), CacheEntry(k, v, ttl, now))
    /\ op' = [name |-> "set", key |-> k, result |-> TRUE,
              outcome |-> set_outcome(Swept[1], k), touched |-> 0]

\* CacheService.set, called by a client of the cache
Set(k, v, ttl) ==
    /\ set(k, v, ttl)
    /\ UNCHANGED <<max_size, now, threadVars, coreVars, serviceVars>>

\* CacheService.delete: what the call does to the store
delete(k) ==
    /\ cache' = IF k \in KeysOf(cache) THEN DictDel(cache, k) ELSE cache
    /\ op' = [name |-> "delete", key |-> k, result |-> k \in KeysOf(cache),
              outcome |-> "none", touched |-> 0]
    /\ UNCHANGED last_cleanup

\* CacheService.delete, called by a client of the cache
Delete(k) ==
    /\ delete(k)
    /\ UNCHANGED <<max_size, now, threadVars, coreVars, serviceVars>>

\* prefix occurs somewhere in key
contains(key, prefix) ==
    \E i \in 0..(Len(key) - Len(prefix)) : SubSeq(key, i + 1, i + Len(prefix)) = prefix

\* str.startswith
StartsWith(key, prefix) ==
    /\ Len(prefix) <= Len(key)
    /\ SubSeq(key, 1, Len(prefix)) = prefix

\* CacheService.clear: what the call does to the store; prefix is None
\* (no_prefix), or a string
clear(no_prefix, prefix) ==
    LET doomed == IF no_prefix THEN KeysOf(cache)
                  ELSE {k \in KeysOf(cache) : StartsWith(k, prefix)}
    IN  /\ cache' = Filter(cache, KeysOf(cache) \ doomed)
        /\ op' = [name |-> IF no_prefix THEN "clear" ELSE "clear_prefix",
                  key |-> prefix, result |-> Cardinality(doomed), outcome |-> "none",
                  touched |-> 0]
        /\ UNCHANGED last_cleanup

\* CacheService.clear, called by a client of the cache
Clear(no_prefix, prefix) ==
    /\ clear(no_prefix, prefix)
    /\ UNCHANGED <<max_size, now, threadVars, coreVars, serviceVars>>

\* CacheService.exists
Exists(k) ==
    LET c == Swept[1]
    IN  /\ last_cleanup' = Swept[2]
        /\ cache' = c
        /\ op' = [name |-> "exists", key |-> k,
                  result |-> exists_returns(c, k, now),
                  outcome |-> "none", touched |-> 0]
        /\ UNCHANGED <<max_size, now, threadVars, coreVars, serviceVars>>

\* time passes between calls
Tick ==
    /\ now < MaxTime
    /\ now' = now + 1
    /\ UNCHANGED <<max_size, cache, last_cleanup, op, threadVars, coreVars, serviceVars>>

Next ==
    \/ \E k \in Keys : Get(k)
    \/ \E k \in Keys, a \in SetArgs : Set(k, a[1], a[2])
    \/ \E k \in Keys : Delete(k)
    \/ Clear(TRUE, <<>>)
    \/ \E p \in Prefixes : Clear(FALSE, p)
    \/ \E k \in Keys : Exists(k)
    \/ Tick

Spec == Init /\ [][Next]_vars

(***************************************************************************)
(* Concurrent callers of set().  A thread takes the steps of               *)
(* CacheService.set in program order; a `with self._lock` block is entered *)
(* only while the lock is free and left in a later step.  The interval     *)
(* test of _cleanup_expired and the length test of _evict_if_needed are    *)
(* made before the lock is taken.                                          *)
(***************************************************************************)
At(t, where) == pc[t].at = where

Goto(t, where) == pc' = [pc EXCEPT ![t].at = where]

\* set(key, value, ttl_seconds) is called
CallSet(t, k, v, ttl) ==
    /\ At(t, "idle")
    /\ calls < MaxCalls
    /\ calls' = calls + 1
    /\ pc' = [pc EXCEPT ![t] = [at |-> "cleanup_test", key |-> k, value |-> v,
                                ttl_seconds |-> ttl, current_time |-> 0]]
    /\ UNCHANGED <<cacheVars, lock, coreVars, serviceVars>>

\* _cleanup_expired: current_time = time.time() and the interval test
CleanupTest(t) ==
    /\ At(t, "cleanup_test")
    /\ pc' = [pc EXCEPT ![t].current_time = now,
                        ![t].at = IF now - last_cleanup < cleanup_interval
                                  THEN "evict_test" ELSE "cleanup_lock"]
    /\ UNCHANGED <<cacheVars, lock, calls, coreVars, serviceVars>>

\* _cleanup_expired: with self._lock
CleanupLock(t) ==
    /\ At(t, "cleanup_lock")
    /\ lock = NoThread
    /\ lock' = t
    /\ Goto(t, "cleanup_sweep")
    /\ UNCHANGED <<cacheVars, calls, coreVars, serviceVars>>

\* _cleanup_expired: the sweep, _last_cleanup = current_time, lock released
CleanupSweep(t) ==
    /\ At(t, "cleanup_sweep")
    /\ cache' = Filter(cache, {cache[i].key : i \in {j \in 1..Len(cache) :
                                                   ~is_expired(cache[j], now)}})
    /\ last_cleanup' = pc[t].current_time
    /\ lock' = NoThread
    /\ Goto(t, "evict_test")
    /\ UNCHANGED <<max_size, now, op, calls, coreVars, serviceVars>>

\* _evict_if_needed: the length test
EvictTest(t) ==
    /\ At(t, "evict_test")
    /\ Goto(t, IF needs_eviction(cache) THEN "evict_lock" ELSE "insert_lock")
    /\ UNCHANGED <<cacheVars, lock, calls, coreVars, serviceVars>>

\* _evict_if_needed: with self._lock
EvictLock(t) ==
    /\ At(t, "evict_lock")
    /\ lock = NoThread
    /\ lock' = t
    /\ Goto(t, "evict_pass")
    /\ UNCHANGED <<cacheVars, calls, coreVars, serviceVars>>

\* _evict_if_needed: the eviction pass, lock released.  A store emptied by
\* another thread since the test makes sorted_entries[0] raise IndexError,
\* which ends the call (the lock is released by the with block).
EvictPass(t) ==
    /\ At(t, "evict_pass")
    /\ cache' = IF cache = <<>> THEN cache ELSE evict_pass(cache)
    /\ lock' = NoThread
    /\ IF cache = <<>>
       THEN /\ pc' = [pc EXCEPT ![t] = NotCalling]
            /\ op' = [name |-> "set", key |-> pc[t].key, result |-> None,
                      outcome |-> "raised", touched |-> 0]
       ELSE /\ Goto(t, "insert_lock")
            /\ op' = op
    /\ UNCHANGED <<max_size, now, last_cleanup, calls, coreVars, serviceVars>>

\* set: with self._lock
InsertLock(t) ==
    /\ At(t, "insert_lock")
    /\ lock = NoThread
    /\ lock' = t
    /\ Goto(t, "insert")
    /\ UNCHANGED <<cacheVars, calls, coreVars, serviceVars>>

\* set: the insertion, lock released, return True
Insert(t) ==
    /\ At(t, "insert")
    /\ cache' = DictPut(cache, CacheEntry(pc[t].key, pc[t].value, pc[t].ttl_seconds, now))
    /\ lock' = NoThread
    /\ pc' = [pc EXCEPT ![t] = NotCalling]
    /\ op' = [name |-> "set", key |-> pc[t].key, result |-> TRUE,
              outcome |-> "inserted", touched |-> 0]
    /\ UNCHANGED <<max_size, now, last_cleanup, calls, coreVars, serviceVars>>

ConcTick ==
    /\ now < MaxTime
    /\ now' = now + 1
    /\ UNCHANGED <<max_size, cache, last_cleanup, op, threadVars, coreVars, serviceVars>>

ConcNext ==
    \/ \E t \in Threads, k \in Keys, a \in SetArgs : CallSet(t, k, a[1], a[2])
    \/ \E t \in Threads : CleanupTest(t)
    \/ \E t \in Threads : CleanupLock(t)
    \/ \E t \in Threads : CleanupSweep(t)
    \/ \E t \in Threads : EvictTest(t)
    \/ \E t \in Threads : EvictLock(t)
    \/ \E t \in Threads : EvictPass(t)
    \/ \E t \in Threads : InsertLock(t)
    \/ \E t \in Threads : Insert(t)
    \/ ConcTick

SpecConc == Init /\ [][ConcNext]_vars

(***************************************************************************)
(* The functions of the core are pure: each specification below draws the  *)
(* schema (or the catalog) in its initial state and its actions apply the  *)
(* functions to it.  The cache is not involved and stays as constructed.   *)
(***************************************************************************)
CacheIdle ==
    /\ max_size = 1
    /\ cache = <<>>
    /\ now = 0
    /\ last_cleanup = 0
    /\ op = NoCall
    /\ ThreadInit
    /\ ServiceIdle

(***************************************************************************)
(* find_shortest_join_path (utils/schema_analyzer.py)                      *)
(***************************************************************************)
TableNames == {"A", "B", "C", "D", "Z"}

ForeignKeyRelation(from_table, from_column, to_table, to_column) ==
    [from_table |-> from_table, from_column |-> from_column,
     to_table |-> to_table, to_column |-> to_column]

\* The foreign keys a schema of the path model is made of: B and D are join
\* tables between A and C, C also refers to A directly, A and B refer to
\* each other, D refers to itself; no foreign key touches Z.
CandidateFKs ==
    { ForeignKeyRelation("B", "a_id", "A", "id"),
      ForeignKeyRelation("B", "c_id", "C", "id"),
      ForeignKeyRelation("D", "a_id", "A", "id"),
      ForeignKeyRelation("D", "c_id", "C", "id"),
      ForeignKeyRelation("C", "a_id", "A", "id"),
      ForeignKeyRelation("A", "b_id", "B", "id"),
      ForeignKeyRelation("D", "parent_id", "D", "id") }

MaxRels == 4

SeqsUpTo(S, n) == UNION {[1..m -> S] : m \in 0..n}

\* the result of find_shortest_join_path: None, or a list of table names
\* the mistake of returning an empty list where None is due
AbsentAsEmptyList == [absent |-> FALSE, path |-> <<>>]

Absent == [absent |-> TRUE, path |-> <<>>]

\* the mistake of returning the path as it was queued, without the end reached
PathWithoutEnd(path) == [absent |-> FALSE, path |-> SubSeq(path, 1, Len(path) - 1)]

PathResult(path) == [absent |-> FALSE, path |-> path]

\* the mistake of following a foreign key only from its table to its target
add_edge_directed(graph, rel) ==
    LET g1 == IF rel.from_table \in DOMAIN graph THEN graph
              ELSE graph @@ (rel.from_table :> <<>>)
        g2 == IF rel.to_table \in DOMAIN g1 THEN g1
              ELSE g1 @@ (rel.to_table :> <<>>)
    IN  [g2 EXCEPT ![rel.from_table] = Append(@, rel.to_table)]

\* lines 186-193: the adjacency lists, in the order the relationships are listed
add_edge(graph, rel) ==
    LET g1 == IF rel.from_table \in DOMAIN graph THEN graph
              ELSE graph @@ (rel.from_table :> <<>>)
        g2 == IF rel.to_table \in DOMAIN g1 THEN g1
              ELSE g1 @@ (rel.to_table :> <<>>)
        g3 == [g2 EXCEPT ![rel.from_table] = Append(@, rel.to_table)]
    IN  [g3 EXCEPT ![rel.to_table] = Append(@, rel.from_table)]

RECURSIVE build_graph(_, _)
build_graph(graph, rels) ==
    IF rels = <<>> THEN graph
    ELSE build_graph(add_edge(graph, Head(rels)), Tail(rels))

EmptyGraph == [t \in {} |-> <<>>]

\* lines 206-212: the loop over graph[current]
RECURSIVE scan_neighbors(_, _, _, _, _, _)
scan_neighbors(nbrs, i, path, end, queue, visited) ==
    IF i > Len(nbrs)
    THEN [found |-> FALSE, path |-> <<>>, queue |-> queue, visited |-> visited]
    ELSE IF nbrs[i] = end
    THEN [found |-> TRUE, path |-> Append(path, nbrs[i]), queue |-> queue,
          visited |-> visited]
    ELSE IF nbrs[i] \notin visited
    THEN scan_neighbors(nbrs, i + 1, path, end,
                        Append(queue, <<nbrs[i], Append(path, nbrs[i])>>),
                        visited \cup {nbrs[i]})
    ELSE scan_neighbors(nbrs, i + 1, path, end, queue, visited)

\* queue.popleft(): <<the element taken, the rest of the queue>>
popleft(queue) == <<Head(queue), Tail(queue)>>

\* lines 203-214: the while loop
RECURSIVE bfs(_, _, _, _)
bfs(graph, end, queue, visited) ==
    IF queue = <<>> THEN Absent
    ELSE LET taken == popleft(queue)
             current == taken[1][1]
             path == taken[1][2]
             r == scan_neighbors(graph[current], 1, path, end, taken[2], visited)
         IN  IF r.found THEN PathResult(r.path)
             ELSE bfs(graph, end, r.queue, r.visited)

never_same_table(start, end) == FALSE

same_table(start, end) == start = end

find_shortest_join_path(sch, start, end) ==
    IF same_table(start, end) THEN PathResult(<<start>>)
    ELSE LET graph == build_graph(EmptyGraph, sch.relationships)
         IN  IF start \notin DOMAIN graph \/ end \notin DOMAIN graph THEN Absent
             ELSE bfs(graph, end, <<<<start, <<start>>>>>>, {start})

NoForeignKey == <<>>

ColumnInfo(name, type, nullable, primary_key, foreign_key) ==
    [name |-> name, type |-> type, nullable |-> nullable,
     primary_key |-> primary_key, foreign_key |-> foreign_key]

TableInfo(name, columns, primary_keys, foreign_keys) ==
    [name |-> name, columns |-> columns, primary_keys |-> primary_keys,
     foreign_keys |-> foreign_keys]

DatabaseSchema(tables, relationships) ==
    [tables |-> tables, relationships |-> relationships, total_tables |-> Len(tables)]

RECURSIVE SelectFrom(_, _)
SelectFrom(rels, name) ==
    IF rels = <<>> THEN <<>>
    ELSE IF Head(rels).from_table = name THEN <<Head(rels)>> \o SelectFrom(Tail(rels), name)
    ELSE SelectFrom(Tail(rels), name)

RECURSIVE FkColumns(_)
FkColumns(fks) ==
    IF fks = <<>> THEN <<>>
    ELSE <<ColumnInfo(Head(fks).from_column, "INTEGER", TRUE, FALSE,
                      <<Head(fks).to_table, ".", Head(fks).to_column>>)>>
         \o FkColumns(Tail(fks))

\* the tables of the path model, each with its key and its foreign-key columns
PathTableOrder == <<"A", "B", "C", "D", "Z">>

PathTable(name, rels) ==
    TableInfo(name,
              <<ColumnInfo("id", "INTEGER", FALSE, TRUE, NoForeignKey)>>
                  \o FkColumns(SelectFrom(rels, name)),
              <<"id">>, SelectFrom(rels, name))

PathSchema(rels) ==
    DatabaseSchema([i \in 1..Len(PathTableOrder) |-> PathTable(PathTableOrder[i], rels)], rels)

PathInit ==
    /\ CacheIdle
    /\ catalog = NoCatalog
    /\ \E rels \in SeqsUpTo(CandidateFKs, MaxRels) : schema = PathSchema(rels)
    /\ call = NoCoreCall

\* one call is made on the schema drawn
FindShortestJoinPath(start, end) ==
    /\ call = NoCoreCall
    /\ call' = [fn |-> "find_shortest_join_path", start |-> start, end |-> end,
                result |-> find_shortest_join_path(schema, start, end)]
    /\ UNCHANGED <<cacheVars, threadVars, serviceVars, catalog, schema>>

PathNext == \E start \in TableNames, end \in TableNames : FindShortestJoinPath(start, end)

SpecPath == PathInit /\ [][PathNext]_vars

(***************************************************************************)
(* introspect_schema (utils/schema_analyzer.py).  The catalog is what the  *)
(* inspector reports: the tables in the order of get_table_names(), each   *)
(* with get_columns(), get_pk_constraint() and get_foreign_keys().         *)
(***************************************************************************)
RawColumn(name, type, nullable) == [name |-> name, type |-> type, nullable |-> nullable]

RawForeignKey(constrained_columns, referred_table, referred_columns) ==
    [constrained_columns |-> constrained_columns, referred_table |-> referred_table,
     referred_columns |-> referred_columns]

RawTable(name, columns, pk_columns, foreign_keys) ==
    [name |-> name, columns |-> columns, pk_columns |-> pk_columns,
     foreign_keys |-> foreign_keys]

\* The tables a database of the model is made of.  Shipment refers to
\* Customer twice; the foreign key of Audit names no referred column.
Customer ==
    RawTable("Customer",
             <<RawColumn("CustomerId", "INTEGER", FALSE), RawColumn("Name", "VARCHAR", TRUE)>>,
             <<"CustomerId">>, <<>>)

Invoice ==
    RawTable("Invoice",
             <<RawColumn("InvoiceId", "INTEGER", FALSE), RawColumn("CustomerId", "INTEGER", TRUE)>>,
             <<"InvoiceId">>,
             <<RawForeignKey(<<"CustomerId">>, "Customer", <<"CustomerId">>)>>)

Shipment ==
    RawTable("Shipment",
             <<RawColumn("BillToId", "INTEGER", TRUE), RawColumn("ShipToId", "INTEGER", TRUE)>>,
             <<>>,
             <<RawForeignKey(<<"BillToId">>, "Customer", <<"CustomerId">>),
               RawForeignKey(<<"ShipToId">>, "Customer", <<"CustomerId">>)>>)

Audit ==
    RawTable("Audit",
             <<RawColumn("AuditId", "INTEGER", FALSE), RawColumn("InvoiceId", "INTEGER", TRUE)>>,
             <<"AuditId">>,
             <<RawForeignKey(<<"InvoiceId">>, "Invoice", <<>>)>>)

CatalogTables == {Customer, Invoice, Shipment, Audit}

MaxTables == 2

Range(f) == {f[i] : i \in DOMAIN f}

Injective(f) == \A i, j \in DOMAIN f : f[i] = f[j] => i = j

\* the orders in which the elements of a sequence can be reported
Orders(seq) ==
    {[i \in 1..Len(seq) |-> seq[p[i]]] :
        p \in {q \in [1..Len(seq) -> 1..Len(seq)] : Injective(q)}}

\* a table with its columns reported in any order
ColumnOrders(t) == {[t EXCEPT !.columns = cols] : cols \in Orders(t.columns)}

\* the databases: up to MaxTables distinct tables, tables and columns in any order
Catalogs ==
    {cat \in SeqsUpTo(UNION {ColumnOrders(t) : t \in CatalogTables}, MaxTables) :
        \A i, j \in 1..Len(cat) : cat[i].name = cat[j].name => i = j}

\* the same database with its tables and columns reported in another order
SameDatabase(cat, other) ==
    /\ Len(other) = Len(cat)
    /\ \A i \in 1..Len(cat) : \E j \in 1..Len(other) : other[j] \in ColumnOrders(cat[i])

Contains(seq, x) == \E i \in 1..Len(seq) : seq[i] = x

\* lines 119-123: the first foreign key that constrains the column, if any
fk_info_of(col_name, raw_foreign_keys) ==
    LET hits == {i \in 1..Len(raw_foreign_keys) :
                    Contains(raw_foreign_keys[i].constrained_columns, col_name)}
    IN  IF hits = {} THEN <<>>
        ELSE <<raw_foreign_keys[CHOOSE i \in hits : \A j \in hits : i <= j]>>

\* line 131: fk_info['referred_columns'][0] raises IndexError on an empty list
column_raises(col, raw_foreign_keys) ==
    LET fk == fk_info_of(col.name, raw_foreign_keys)
    IN  fk # <<>> /\ fk[1].referred_columns = <<>>

\* lines 125-135
column_info_of(col, pk_columns, raw_foreign_keys) ==
    LET fk == fk_info_of(col.name, raw_foreign_keys)
    IN  ColumnInfo(col.name, col.type, col.nullable, Contains(pk_columns, col.name),
                   IF fk = <<>> THEN NoForeignKey
                   ELSE <<fk[1].referred_table, ".", fk[1].referred_columns[1]>>)

\* lines 139-146: the relation of a foreign-key column, as a list of 0 or 1
fk_relation_of(table_name, col, raw_foreign_keys) ==
    LET fk == fk_info_of(col.name, raw_foreign_keys)
    IN  IF fk = <<>> THEN <<>>
        ELSE <<ForeignKeyRelation(table_name, col.name, fk[1].referred_table,
                                  IF fk[1].referred_columns # <<>>
                                  THEN fk[1].referred_columns[1] ELSE col.name)>>

\* lines 114-148: the loop over raw_columns; table_foreign_keys follows column order
RECURSIVE columns_info_of(_, _, _)
columns_info_of(cols, pk_columns, raw_foreign_keys) ==
    IF cols = <<>> THEN <<>>
    ELSE <<column_info_of(Head(cols), pk_columns, raw_foreign_keys)>>
         \o columns_info_of(Tail(cols), pk_columns, raw_foreign_keys)

RECURSIVE table_foreign_keys_of(_, _, _)
table_foreign_keys_of(table_name, cols, raw_foreign_keys) ==
    IF cols = <<>> THEN <<>>
    ELSE fk_relation_of(table_name, Head(cols), raw_foreign_keys)
         \o table_foreign_keys_of(table_name, Tail(cols), raw_foreign_keys)

\* lines 153-160
table_info_of(t) ==
    TableInfo(t.name, columns_info_of(t.columns, t.pk_columns, t.foreign_keys),
              t.pk_columns, table_foreign_keys_of(t.name, t.columns, t.foreign_keys))

\* the mistake of not adding a table's relations to all_relationships
no_relationships_of(t) == <<>>

\* line 148: what a table adds to all_relationships
relationships_of(t) == table_foreign_keys_of(t.name, t.columns, t.foreign_keys)

\* lines 101-161: the loop over the tables
RECURSIVE tables_info_of(_)
tables_info_of(cat) ==
    IF cat = <<>> THEN <<>>
    ELSE <<table_info_of(Head(cat))>> \o tables_info_of(Tail(cat))

RECURSIVE all_relationships_of(_)
all_relationships_of(cat) ==
    IF cat = <<>> THEN <<>>
    ELSE relationships_of(Head(cat)) \o all_relationships_of(Tail(cat))

introspection_raises(cat) ==
    \E i \in 1..Len(cat) : \E j \in 1..Len(cat[i].columns) :
        column_raises(cat[i].columns[j], cat[i].foreign_keys)

\* lines 164-174
introspect_schema(cat) ==
    LET tables_info == tables_info_of(cat)
    IN  [tables |-> tables_info, relationships |-> all_relationships_of(cat),
         total_tables |-> Len(tables_info)]

(***************************************************************************)
(* generate_schema_hash.  Python compares strings by code point: Alphabet  *)
(* lists the names of the model in that order.  sorted() is stable.        *)
(***************************************************************************)
Alphabet ==
    <<"Audit", "AuditId", "BillToId", "Customer", "CustomerId", "INTEGER", "Invoice",
      "InvoiceId", "Name", "ShipToId", "Shipment", "ShipmentId", "VARCHAR">>

StrRank(str) == CHOOSE i \in 1..Len(Alphabet) : Alphabet[i] = str

\* (a, b) < (c, d) for tuples of two strings
PairLess(a, b, c, d) ==
    \/ StrRank(a) < StrRank(c)
    \/ StrRank(a) = StrRank(c) /\ StrRank(b) < StrRank(d)

\* the place of seq[i] in sorted(seq, key): Less(x, y) is key(x) < key(y)
SortedPlace(seq, i, Less(_, _)) ==
    1 + Cardinality({j \in 1..Len(seq) : Less(seq[j], seq[i])})
      + Cardinality({j \in 1..(i - 1) : ~Less(seq[j], seq[i]) /\ ~Less(seq[i], seq[j])})

Sorted(seq, Less(_, _)) ==
    [n \in 1..Len(seq) |-> seq[CHOOSE i \in 1..Len(seq) : SortedPlace(seq, i, Less) = n]]

ByName(x, y) == StrRank(x.name) < StrRank(y.name)

ByTables(x, y) == PairLess(x.from_table, x.to_table, y.from_table, y.to_table)

RECURSIVE column_items(_)
column_items(cols) ==
    IF cols = <<>> THEN <<>>
    ELSE <<Head(cols).name, Head(cols).type, IF Head(cols).nullable THEN "1" ELSE "0">>
         \o column_items(Tail(cols))

RECURSIVE fk_items(_)
fk_items(fks) ==
    IF fks = <<>> THEN <<>>
    ELSE <<Head(fks).from_table, Head(fks).to_table, Head(fks).from_column,
           Head(fks).to_column>> \o fk_items(Tail(fks))

\* lines 298-304
RECURSIVE hash_input_of(_)
hash_input_of(tables) ==
    IF tables = <<>> THEN <<>>
    ELSE <<Head(tables).name>>
         \o column_items(Sorted(Head(tables).columns, ByName))
         \o fk_items(Sorted(Head(tables).foreign_keys, ByTables))
         \o hash_input_of(Tail(tables))

\* "|".join(hash_input): the items with a "|" between neighbours
RECURSIVE join(_, _)
join(sep, items) ==
    IF Len(items) <= 1 THEN items
    ELSE <<Head(items), sep>> \o join(sep, Tail(items))

\* hashlib.sha256(...).hexdigest()[:16], taken to be free of collisions: the
\* digest stands for the string it was computed from
sha256_hex16(str) == <<"sha256", str>>

generate_schema_hash(sch) == sha256_hex16(join("|", hash_input_of(Sorted(sch.tables, ByName))))

(***************************************************************************)
(* A database is introspected and its schema hashed; it is then            *)
(* introspected again, reporting the same tables and columns in any order, *)
(* and hashed again for change detection.                                  *)
(***************************************************************************)
IntrospectInit ==
    /\ CacheIdle
    /\ catalog \in Catalogs
    /\ schema = NoSchema
    /\ call = NoCoreCall

IntrospectSchema ==
    /\ call.fn = "none"
    /\ IF introspection_raises(catalog)
       THEN /\ call' = [fn |-> "introspect_schema", raised |-> TRUE]
            /\ schema' = schema
       ELSE /\ call' = [fn |-> "introspect_schema", raised |-> FALSE]
            /\ schema' = introspect_schema(catalog)
    /\ UNCHANGED <<cacheVars, threadVars, serviceVars, catalog>>

GenerateSchemaHash ==
    /\ call.fn = "introspect_schema"
    /\ ~call.raised
    /\ call' = [fn |-> "generate_schema_hash", result |-> generate_schema_hash(schema)]
    /\ UNCHANGED <<cacheVars, threadVars, serviceVars, catalog, schema>>

IntrospectAgain ==
    /\ call.fn = "generate_schema_hash"
    /\ \E other \in Catalogs :
          /\ SameDatabase(catalog, other)
          /\ catalog' = other
          /\ schema' = introspect_schema(other)
    /\ call' = [fn |-> "introspect_again", before |-> call.result]
    /\ UNCHANGED <<cacheVars, threadVars, serviceVars>>

GenerateSchemaHashAgain ==
    /\ call.fn = "introspect_again"
    /\ call' = [fn |-> "generate_schema_hash_again", before |-> call.before,
                result |-> generate_schema_hash(schema)]
    /\ UNCHANGED <<cacheVars, threadVars, serviceVars, catalog, schema>>

IntrospectNext ==
    \/ IntrospectSchema
    \/ GenerateSchemaHash
    \/ IntrospectAgain
    \/ GenerateSchemaHashAgain

SpecIntrospect == IntrospectInit /\ [][IntrospectNext]_vars

(***************************************************************************)
(* The relevance ranker (utils/retrieval.py).  Text is a sequence of       *)
(* characters.  Chars, the characters of a query, has lower-case letters,  *)
(* an upper-case letter, a blank and a letter outside a-z (it stays        *)
(* outside after lower()).                                                 *)
(***************************************************************************)
Chars == {"a", "s", "A", " ", "é"}

LowerCase == <<"a", "b", "c", "d", "e", "f", "g", "h", "i", "j", "k", "l", "m">>
             \o <<"n", "o", "p", "q", "r", "s", "t", "u", "v", "w", "x", "y", "z">>

UpperCase == <<"A", "B", "C", "D", "E", "F", "G", "H", "I", "J", "K", "L", "M">>
             \o <<"N", "O", "P", "Q", "R", "S", "T", "U", "V", "W", "X", "Y", "Z">>

Digits == <<"0", "1", "2", "3", "4", "5", "6", "7", "8", "9">>

\* the characters of [a-z0-9_]
TokenChars == Range(LowerCase) \cup Range(Digits) \cup {"_"}

\* str.lower(), character by character
ToLower == [ch \in Range(UpperCase) |-> LowerCase[CHOOSE i \in 1..Len(UpperCase) : UpperCase[i] = ch]]

lower_char(ch) == IF ch \in DOMAIN ToLower THEN ToLower[ch] ELSE ch

lower(str) == [i \in 1..Len(str) |-> lower_char(str[i])]

\* re.findall(r"[a-z0-9_]+", text): the maximal runs of token characters, in
\* order; run is the run being read
RECURSIVE findall_tokens(_, _)
findall_tokens(text, run) ==
    IF text = <<>> THEN (IF run = <<>> THEN <<>> ELSE <<run>>)
    ELSE IF Head(text) \in TokenChars THEN findall_tokens(Tail(text), Append(run, Head(text)))
    ELSE (IF run = <<>> THEN <<>> ELSE <<run>>) \o findall_tokens(Tail(text), <<>>)

tokenize(str) == findall_tokens(lower(str), <<>>)

RECURSIVE column_tokens(_)
column_tokens(cols) ==
    IF cols = <<>> THEN <<>>
    ELSE tokenize(Head(cols).name) \o tokenize(Head(cols).type) \o column_tokens(Tail(cols))

endswith_s(str) == Len(str) >= 1 /\ str[Len(str)] = "s"

\* _table_keywords; the list is only ever used as a set
table_keywords(t) ==
    Range(tokenize(t.name) \o column_tokens(t.columns)
          \o (IF endswith_s(t.name) THEN tokenize(SubSeq(t.name, 1, Len(t.name) - 1))
              ELSE tokenize(Append(t.name, "s"))))

(***************************************************************************)
(* Scores are real numbers, kept exactly: [inter, norm2, cos] stands for   *)
(*     0.6 * inter / sqrt(norm2) + 0.4 * cos / CosScale                    *)
(* and a keyword score alone for inter / sqrt(norm2).                      *)
(***************************************************************************)
\* cosine similarities are the multiples of 1 / CosScale in [-1, 1]
CosScale == 1

CosGrid == (0 - CosScale)..CosScale

\* X > Y * sqrt(n) and X < Y * sqrt(n), for integers X, Y and n >= 1
SurdGreater(X, Y, n) ==
    IF X > 0 /\ Y > 0 THEN X * X > Y * Y * n
    ELSE IF X < 0 /\ Y < 0 THEN X * X < Y * Y * n
    ELSE (X >= 0 /\ Y <= 0) /\ (X > 0 \/ Y < 0)

SurdLess(X, Y, n) == SurdGreater(0 - X, 0 - Y, n)

\* a score that counts the shared tokens and leaves out the normalisation
keyword_score_raw_count(query, t) ==
    [inter |-> Cardinality(Range(tokenize(query)) \cap table_keywords(t)), norm2 |-> 1]

\* _keyword_score
keyword_score(query, t) ==
    LET q_toks == Range(tokenize(query))
        t_toks == table_keywords(t)
    IN  IF q_toks = {} \/ t_toks = {} THEN [inter |-> 0, norm2 |-> 1]
        ELSE [inter |-> Cardinality(q_toks \cap t_toks),
              norm2 |-> Cardinality(q_toks) * Cardinality(t_toks)]

\* line 114: 0.6 * kw + 0.4 * emb
combine(kw, cos) == [inter |-> kw.inter, norm2 |-> kw.norm2, cos |-> cos]

\* s1 > s2 for combined scores
ScoreGreater(s1, s2) ==
    LET K == CosScale
        D == 2 * (s2.cos - s1.cos)
    IN  IF SurdLess(3 * K * s2.inter, 0 - D, s2.norm2) THEN TRUE
        ELSE SurdGreater(9 * K * K * s1.inter * s1.inter * s2.norm2
                             - 9 * K * K * s2.inter * s2.inter * s1.norm2
                             - D * D * s1.norm2 * s2.norm2,
                         6 * K * D * s2.inter * s1.norm2, s2.norm2)

\* line 117: sorted(schema.tables, key=combined, reverse=True), stable; keys[i]
\* is the combined score of tables[i]
RankPlace(keys, i) ==
    1 + Cardinality({j \in 1..Len(keys) : ScoreGreater(keys[j], keys[i])})
      + Cardinality({j \in 1..(i - 1) :
                        ~ScoreGreater(keys[j], keys[i]) /\ ~ScoreGreater(keys[i], keys[j])})

\* the tables left in schema order, whatever their scores
unranked_tables(tables, keys) == tables

ranked_tables(tables, keys) ==
    [n \in 1..Len(tables) |->
        tables[CHOOSE i \in 1..Len(tables) : RankPlace(keys, i) = n]]

TableNamesOf(sch) == {sch.tables[i].name : i \in 1..Len(sch.tables)}

\* lines 92-93: the keyword score of each table, in schema order
RECURSIVE kw_scores_of(_, _)
kw_scores_of(tables, nl_query) ==
    IF tables = <<>> THEN <<>>
    ELSE <<keyword_score(nl_query, Head(tables))>> \o kw_scores_of(Tail(tables), nl_query)

\* the mistake of keeping, when an embedding call fails, a full semantic score
\* for the table scored first
emb_scores_kept(tables, emb, cosines) ==
    [i \in 1..Len(tables) |->
        IF emb = "on" THEN cosines[tables[i].name]
        ELSE IF emb = "failed" /\ i = 1 THEN CosScale ELSE 0]

\* lines 95-109: emb is "off" (no embedding capability), "failed" (an embedding
\* call raised) or "on"; cosines is then the cosine similarity of each table
RECURSIVE emb_scores_of(_, _, _)
emb_scores_of(tables, emb, cosines) ==
    IF tables = <<>> THEN <<>>
    ELSE <<IF emb = "on" THEN cosines[Head(tables).name] ELSE 0>>
         \o emb_scores_of(Tail(tables), emb, cosines)

\* lines 112-114
RECURSIVE combined_of(_, _)
combined_of(kw_scores, emb_scores) ==
    IF kw_scores = <<>> THEN <<>>
    ELSE <<combine(Head(kw_scores), Head(emb_scores))>>
         \o combined_of(Tail(kw_scores), Tail(emb_scores))

\* a dict keyed by table name, from the values in schema order
ByTableName(tables, values) ==
    [name \in {tables[i].name : i \in 1..Len(tables)} |->
        values[CHOOSE i \in 1..Len(tables) :
                  /\ tables[i].name = name
                  /\ \A j \in (i + 1)..Len(tables) : tables[j].name # name]]

\* select_relevant_tables: <<ranked[:top_k], combined>>
select_relevant_tables(sch, nl_query, top_k, emb, cosines) ==
    LET kw_scores == kw_scores_of(sch.tables, nl_query)
        emb_scores == emb_scores_of(sch.tables, emb, cosines)
        combined == combined_of(kw_scores, emb_scores)
        ranked == ranked_tables(sch.tables, combined)
    IN  [tables |-> SubSeq(ranked, 1, Min(top_k, Len(ranked))),
         scores |-> ByTableName(sch.tables, combined),
         kw_scores |-> ByTableName(sch.tables, kw_scores)]

\* The tables a schema of the ranking model is made of: a capitalised name,
\* a name ending in s, a name of two words, a name without a token character.
RankTables ==
    { TableInfo(<<"A", "s">>,
                <<ColumnInfo(<<"b", "b">>, <<"b">>, TRUE, FALSE, NoForeignKey)>>, <<>>, <<>>),
      TableInfo(<<"a">>,
                <<ColumnInfo(<<"a", "b">>, <<"b">>, TRUE, FALSE, NoForeignKey)>>, <<>>, <<>>),
      TableInfo(<<"s", " ", "a">>,
                <<ColumnInfo(<<"s", "b">>, <<"A">>, TRUE, FALSE, NoForeignKey)>>, <<>>, <<>>),
      TableInfo(<<"é">>,
                <<ColumnInfo(<<"b">>, <<"s", "b">>, TRUE, FALSE, NoForeignKey)>>, <<>>, <<>>) }

RankSchemas ==
    {DatabaseSchema(tables, <<>>) :
        tables \in {ts \in SeqsUpTo(RankTables, 2) : Len(ts) >= 1 /\ Injective(ts)}}

MaxQueryLen == 3

Queries == SeqsUpTo(Chars, MaxQueryLen)

TopKs == {1, 8}

RankInit ==
    /\ CacheIdle
    /\ catalog = NoCatalog
    /\ schema \in RankSchemas
    /\ call = NoCoreCall

SelectRelevantTables(nl_query, top_k, emb, cosines) ==
    /\ call = NoCoreCall
    /\ call' = [fn |-> "select_relevant_tables", nl_query |-> nl_query, top_k |-> top_k,
                emb |-> emb, cosines |-> cosines,
                result |-> select_relevant_tables(schema, nl_query, top_k, emb, cosines)]
    /\ UNCHANGED <<cacheVars, threadVars, serviceVars, catalog, schema>>

NoCosines == [name \in TableNamesOf(schema) |-> 0]

RankNext ==
    \/ /\ call = NoCoreCall
       /\ \E q \in Queries, k \in TopKs, emb \in {"off", "failed"} :
             SelectRelevantTables(q, k, emb, NoCosines)
    \/ /\ call = NoCoreCall
       /\ \E q \in Queries, k \in TopKs, cosines \in [TableNamesOf(schema) -> CosGrid] :
             SelectRelevantTables(q, k, "on", cosines)
    \/ \* top_k = 0: ranked[:0]
       /\ call = NoCoreCall
       /\ \E q \in Queries : SelectRelevantTables(q, 0, "off", NoCosines)

SpecRank == RankInit /\ [][RankNext]_vars

(***************************************************************************)
(* Context assembly (utils/retrieval.py): get_related_tables_for_query,    *)
(* build_schema_snippet and create_schema_context.  A text is a sequence   *)
(* of characters and a context is the sequence of its lines.               *)
(***************************************************************************)
\* any(t.name == table_name for t in relevant_tables)
HasTableNamed(tables, name) == \E i \in 1..Len(tables) : tables[i].name = name

\* DatabaseSchema.get_table: the first table whose lower-cased name matches
get_table(sch, table_name) ==
    IF \E i \in 1..Len(sch.tables) : lower(sch.tables[i].name) = lower(table_name)
    THEN <<sch.tables[CHOOSE i \in 1..Len(sch.tables) :
              /\ lower(sch.tables[i].name) = lower(table_name)
              /\ \A j \in 1..(i - 1) : lower(sch.tables[j].name) # lower(table_name)]>>
    ELSE <<>>

\* lines 164-171: the names at the other end of a relationship of a relevant table
related_tables_of(sch, relevant_tables) ==
    {r.to_table : r \in {x \in Range(sch.relationships) :
                            HasTableNamed(relevant_tables, x.from_table)}}
    \cup {r.from_table : r \in {x \in Range(sch.relationships) :
                                 HasTableNamed(relevant_tables, x.to_table)}}

\* the orders in which a set can be iterated
SetOrders(S) == {order \in [1..Cardinality(S) -> S] : Injective(order)}

\* lines 174-178 for the related names in the order the set is iterated
RECURSIVE add_related(_, _, _, _)
add_related(sch, relevant_tables, names, max_tables) ==
    IF names = <<>> THEN relevant_tables
    ELSE LET table == get_table(sch, Head(names))
         IN  add_related(sch,
                 IF /\ ~HasTableNamed(relevant_tables, Head(names))
                    /\ table # <<>>
                    /\ Len(relevant_tables) < max_tables
                 THEN Append(relevant_tables, table[1]) ELSE relevant_tables,
                 Tail(names), max_tables)

\* get_related_tables_for_query; order is the order in which the set of related
\* names is iterated
get_related_tables_for_query(sch, nl_query, include_relationships, max_tables, emb, cosines, order) ==
    LET relevant_tables == select_relevant_tables(sch, nl_query, max_tables, emb, cosines).tables
    IN  IF ~include_relationships THEN relevant_tables
        ELSE add_related(sch, relevant_tables, order, max_tables)

\* ForeignKeyRelation with its constraint_name; NoName is None
NoName == <<>>

NamedForeignKeyRelation(from_table, from_column, to_table, to_column, constraint_name) ==
    [from_table |-> from_table, from_column |-> from_column, to_table |-> to_table,
     to_column |-> to_column, constraint_name |-> constraint_name]

\* sep.join(texts) for texts that are sequences of characters
RECURSIVE join_text(_, _)
join_text(sep, texts) ==
    IF texts = <<>> THEN <<>>
    ELSE IF Len(texts) = 1 THEN texts[1]
    ELSE texts[1] \o sep \o join_text(sep, Tail(texts))

\* str(n) for 0 <= n <= 99
str_int(n) == IF n < 10 THEN <<Digits[n + 1]>> ELSE <<Digits[(n \div 10) + 1], Digits[(n % 10) + 1]>>

\* line 131: f"{c.name}:{c.type}" of each column
column_texts(cols) == [i \in 1..Len(cols) |-> cols[i].name \o <<":">> \o cols[i].type]

\* line 132
header_line(t) == <<"-", " ">> \o t.name \o <<"(">> \o join_text(<<",", " ">>, column_texts(t.columns)) \o <<")">>

\* lines 135-137
pk_lines(t) ==
    IF t.primary_keys = <<>> THEN <<>>
    ELSE << <<" ", " ", "P", "K", ":", " ">> \o join_text(<<",", " ">>, t.primary_keys) >>

\* lines 142-143
join_line(t, fk) ==
    <<" ", " ", "j", "o", "i", "n", "s", " ">> \o fk.to_table \o <<" ", "O", "N", " ">> \o t.name \o <<".">> \o fk.from_column
        \o <<" ", "=", " ">> \o fk.to_table \o <<".">> \o fk.to_column
        \o (IF fk.constraint_name # NoName THEN <<" ", "[", "F", "K", " ">> \o fk.constraint_name \o <<"]">> ELSE <<>>)

\* a snippet that hints at every foreign key, chosen target or not
every_join_lines(t, fks, chosen) ==
    [i \in 1..Len(fks) |-> join_line(t, fks[i])]

\* lines 140-143
RECURSIVE join_lines(_, _, _)
join_lines(t, fks, chosen) ==
    IF fks = <<>> THEN <<>>
    ELSE (IF Head(fks).to_table \in chosen THEN <<join_line(t, Head(fks))>> ELSE <<>>)
         \o join_lines(t, Tail(fks), chosen)

RECURSIVE snippet_lines(_, _)
snippet_lines(tables, chosen) ==
    IF tables = <<>> THEN <<>>
    ELSE <<header_line(Head(tables))>> \o pk_lines(Head(tables))
         \o join_lines(Head(tables), Head(tables).foreign_keys, chosen)
         \o snippet_lines(Tail(tables), chosen)

\* build_schema_snippet: the lines that "\n".join joins
build_schema_snippet(tables, sch) ==
    snippet_lines(tables, {tables[i].name : i \in 1..Len(tables)})

\* create_schema_context: the final table list and the lines of the context
create_schema_context(sch, nl_query, include_relationships, max_tables, emb, cosines, order) ==
    LET relevant_tables == get_related_tables_for_query(sch, nl_query, include_relationships,
                                                        max_tables, emb, cosines, order)
        schema_snippet == build_schema_snippet(relevant_tables, sch)
    IN  [tables |-> relevant_tables,
         context |->
            << <<"D", "a", "t", "a", "b", "a", "s", "e", ":", " ">> \o sch.database_name \o <<" ", "(">> \o sch.database_type \o <<")">>,
               <<"T", "o", "t", "a", "l", " ", "t", "a", "b", "l", "e", "s", ":", " ">> \o str_int(sch.total_tables),
               <<"R", "e", "l", "e", "v", "a", "n", "t", " ", "t", "a", "b", "l", "e", "s", " ", "(">> \o str_int(Len(relevant_tables)) \o <<")", ":">> >>
            \o (IF schema_snippet = <<>> THEN << <<>> >> ELSE schema_snippet)]

\* The tables of the context model: Invoice refers to Customer by an unnamed
\* foreign key, Payment to Invoice by a named one.
CustomerInfo ==
    TableInfo(<<"C", "u", "s", "t", "o", "m", "e", "r">>,
              <<ColumnInfo(<<"C", "u", "s", "t", "o", "m", "e", "r", "I", "d">>, <<"I", "N", "T", "E", "G", "E", "R">>, FALSE, TRUE, NoForeignKey),
                ColumnInfo(<<"N", "a", "m", "e">>, <<"V", "A", "R", "C", "H", "A", "R">>, TRUE, FALSE, NoForeignKey)>>,
              << <<"C", "u", "s", "t", "o", "m", "e", "r", "I", "d">> >>, <<>>)

InvoiceInfo ==
    TableInfo(<<"I", "n", "v", "o", "i", "c", "e">>,
              <<ColumnInfo(<<"I", "n", "v", "o", "i", "c", "e", "I", "d">>, <<"I", "N", "T", "E", "G", "E", "R">>, FALSE, TRUE, NoForeignKey),
                ColumnInfo(<<"C", "u", "s", "t", "o", "m", "e", "r", "I", "d">>, <<"I", "N", "T", "E", "G", "E", "R">>, TRUE, FALSE, <<"C", "u", "s", "t", "o", "m", "e", "r", ".", "C", "u", "s", "t", "o", "m", "e", "r", "I", "d">>)>>,
              << <<"I", "n", "v", "o", "i", "c", "e", "I", "d">> >>,
              <<NamedForeignKeyRelation(<<"I", "n", "v", "o", "i", "c", "e">>, <<"C", "u", "s", "t", "o", "m", "e", "r", "I", "d">>, <<"C", "u", "s", "t", "o", "m", "e", "r">>, <<"C", "u", "s", "t", "o", "m", "e", "r", "I", "d">>,
                                        NoName)>>)

PaymentInfo ==
    TableInfo(<<"P", "a", "y", "m", "e", "n", "t">>,
              <<ColumnInfo(<<"P", "a", "y", "m", "e", "n", "t", "I", "d">>, <<"I", "N", "T", "E", "G", "E", "R">>, FALSE, TRUE, NoForeignKey),
                ColumnInfo(<<"I", "n", "v", "o", "i", "c", "e", "I", "d">>, <<"I", "N", "T", "E", "G", "E", "R">>, TRUE, FALSE, <<"I", "n", "v", "o", "i", "c", "e", ".", "I", "n", "v", "o", "i", "c", "e", "I", "d">>)>>,
              << <<"P", "a", "y", "m", "e", "n", "t", "I", "d">> >>,
              <<NamedForeignKeyRelation(<<"P", "a", "y", "m", "e", "n", "t">>, <<"I", "n", "v", "o", "i", "c", "e", "I", "d">>, <<"I", "n", "v", "o", "i", "c", "e">>, <<"I", "n", "v", "o", "i", "c", "e", "I", "d">>,
                                        <<"f", "k", "_", "p", "a", "y">>)>>)

ContextTables == {CustomerInfo, InvoiceInfo, PaymentInfo}

RECURSIVE foreign_keys_of(_)
foreign_keys_of(tables) ==
    IF tables = <<>> THEN <<>>
    ELSE Head(tables).foreign_keys \o foreign_keys_of(Tail(tables))

\* the schemas: one to three of the tables in any order, as introspection
\* builds them, of a SQLite database called chinook
ContextSchemas ==
    {[tables |-> tables, relationships |-> foreign_keys_of(tables),
      total_tables |-> Len(tables), database_name |-> <<"c", "h", "i", "n", "o", "o", "k">>,
      database_type |-> <<"s", "q", "l", "i", "t", "e">>] :
        tables \in {ts \in SeqsUpTo(ContextTables, 3) : Len(ts) >= 1 /\ Injective(ts)}}

CustomersAndInvoices ==
    <<"s", "h", "o", "w", " ", "m", "e", " ", "c", "u", "s", "t", "o", "m", "e", "r", "s", " ", "a", "n", "d", " ", "t", "h", "e", "i", "r", " ", "i", "n", "v", "o", "i", "c", "e", "s">>

ContextQueries ==
    { CustomersAndInvoices, <<"p", "a", "y", "m", "e", "n", "t", "s">>, <<"i", "n", "v", "o", "i", "c", "e">>, <<>> }

MaxTablesArgs == {1, 2, 8}

ContextInit ==
    /\ CacheIdle
    /\ catalog = NoCatalog
    /\ schema \in ContextSchemas
    /\ call = NoCoreCall

\* the set of related names of a call, which the expansion iterates
RelatedNames(nl_query, max_tables, emb, cosines) ==
    related_tables_of(schema,
        select_relevant_tables(schema, nl_query, max_tables, emb, cosines).tables)

GetRelatedTablesForQuery(nl_query, include_relationships, max_tables, emb, cosines) ==
    /\ call = NoCoreCall
    /\ \E order \in IF include_relationships
                   THEN SetOrders(RelatedNames(nl_query, max_tables, emb, cosines))
                   ELSE {<<>>} :
          call' = [fn |-> "get_related_tables_for_query", nl_query |-> nl_query,
                   include_relationships |-> include_relationships,
                   max_tables |-> max_tables, emb |-> emb, cosines |-> cosines,
                   order |-> order,
                   result |-> get_related_tables_for_query(schema, nl_query,
                                  include_relationships, max_tables, emb, cosines, order)]
    /\ UNCHANGED <<cacheVars, threadVars, serviceVars, catalog, schema>>

CreateSchemaContext(nl_query, include_relationships, max_tables, emb, cosines) ==
    /\ call = NoCoreCall
    /\ \E order \in IF include_relationships
                   THEN SetOrders(RelatedNames(nl_query, max_tables, emb, cosines))
                   ELSE {<<>>} :
          call' = [fn |-> "create_schema_context", nl_query |-> nl_query,
                   include_relationships |-> include_relationships,
                   max_tables |-> max_tables, emb |-> emb, cosines |-> cosines,
                   order |-> order,
                   result |-> create_schema_context(schema, nl_query,
                                  include_relationships, max_tables, emb, cosines, order)]
    /\ UNCHANGED <<cacheVars, threadVars, serviceVars, catalog, schema>>

\* the embedding capability of a call: absent, or present with each table
\* either opposite (cosine -1) or parallel (cosine 1) to the query
EmbeddingsOf(sch) ==
    {<<"off", [name \in TableNamesOf(sch) |-> 0]>>}
    \cup {<<"on", cosines>> : cosines \in [TableNamesOf(sch) -> {0 - CosScale, CosScale}]}

Embeddings == EmbeddingsOf(schema)

ContextNext ==
    \/ /\ call = NoCoreCall
       /\ \E q \in ContextQueries, incl \in BOOLEAN, m \in MaxTablesArgs, e \in Embeddings :
             GetRelatedTablesForQuery(q, incl, m, e[1], e[2])
    \/ /\ call = NoCoreCall
       /\ \E q \in ContextQueries, incl \in BOOLEAN, m \in MaxTablesArgs, e \in Embeddings :
             CreateSchemaContext(q, incl, m, e[1], e[2])

SpecContext == ContextInit /\ [][ContextNext]_vars

(***************************************************************************)
(* The database service (services/database_service.py) with the           *)
(* connection factory (utils/database_factory.py), and generate_sql        *)
(* (services/sql_generation_service.py), which works on the service's      *)
(* current database.                                                       *)
(***************************************************************************)
\* settings.SQLITE_DB_PATH and the path of a custom database
DefaultPath == "../database/sample_data/chinook.db"

DatabasePaths == {DefaultPath, "shop.db"}

\* what create_sqlite_connection finds at a path: no file, a file that is not
\* a SQLite database, a database without tables, a database with tables, a
\* database with tables on which the test query fails
FileStates == {"missing", "not_sqlite", "no_tables", "usable", "failing"}

\* the schema of the database at a path
SchemaAt(db_path) ==
    [tables |-> IF db_path = DefaultPath THEN <<CustomerInfo, InvoiceInfo>>
                ELSE <<InvoiceInfo, PaymentInfo>>,
     relationships |-> IF db_path = DefaultPath THEN InvoiceInfo.foreign_keys
                       ELSE InvoiceInfo.foreign_keys \o PaymentInfo.foreign_keys,
     total_tables |-> 2, database_name |-> <<"c", "h", "i", "n", "o", "o", "k">>, database_type |-> <<"s", "q", "l", "i", "t", "e">>]

\* SQLDatabase.from_uri
SQLDatabase(db_path) ==
    [path |-> db_path,
     usable_table_names |-> [i \in 1..Len(SchemaAt(db_path).tables) |->
                                SchemaAt(db_path).tables[i].name]]

\* DatabaseFactory.create_sqlite_connection: (db, error)
create_sqlite_connection(db_path, file) ==
    IF file = "missing" THEN [db |-> <<>>, error |-> "Database file not found"]
    ELSE IF file = "not_sqlite" THEN [db |-> <<>>, error |-> "Database connection error"]
    ELSE IF file = "no_tables" THEN [db |-> <<>>, error |-> "Database contains no tables"]
    ELSE [db |-> <<SQLDatabase(db_path)>>, error |-> None]

\* DatabaseFactory.test_connection: (is_working, error)
test_connection(file) ==
    IF file = "failing" THEN [is_working |-> FALSE, error |-> "Test query failed"]
    ELSE [is_working |-> TRUE, error |-> None]

\* the mistake of dropping the connection held when the attempt fails
connect_or_drop(db_path, reported_path, file) ==
    LET made == create_sqlite_connection(db_path, file)
        tested == test_connection(file)
    IN  IF made.error # None \/ ~tested.is_working
        THEN [current_db |-> <<>>, connection_info |-> <<>>,
              response |-> [success |-> FALSE,
                            error |-> IF made.error # None THEN made.error
                                      ELSE "Connection test failed",
                            connection_info |-> <<>>]]
        ELSE LET info == [database_type |-> "sqlite", database_path |-> reported_path,
                          dialect |-> "sqlite",
                          tables_count |-> Len(made.db[1].usable_table_names)]
             IN  [current_db |-> made.db, connection_info |-> <<info>>,
                  response |-> [success |-> TRUE, error |-> None, connection_info |-> <<info>>]]

\* connect_to_default_database and connect_to_custom_database: the new
\* _current_db and _connection_info, and the response
connect(db_path, reported_path, file) ==
    LET made == create_sqlite_connection(db_path, file)
        tested == test_connection(file)
    IN  IF made.error # None
        THEN [current_db |-> current_db, connection_info |-> connection_info,
              response |-> [success |-> FALSE, error |-> made.error, connection_info |-> <<>>]]
        ELSE IF ~tested.is_working
        THEN [current_db |-> current_db, connection_info |-> connection_info,
              response |-> [success |-> FALSE, error |-> "Connection test failed",
                            connection_info |-> <<>>]]
        ELSE LET info == [database_type |-> "sqlite", database_path |-> reported_path,
                          dialect |-> "sqlite",
                          tables_count |-> Len(made.db[1].usable_table_names)]
             IN  [current_db |-> made.db, connection_info |-> <<info>>,
                  response |-> [success |-> TRUE, error |-> None, connection_info |-> <<info>>]]

ServiceInit ==
    /\ CacheIdle
    /\ CoreIdle

ConnectToDefaultDatabase(file) ==
    LET done == connect(DefaultPath, "chinook.db", file)
    IN  /\ current_db' = done.current_db
        /\ connection_info' = done.connection_info
        /\ call' = [fn |-> "connect_to_default_database", db_path |-> DefaultPath,
                    result |-> done.response]
        /\ UNCHANGED <<cacheVars, threadVars, catalog, schema, passes>>

ConnectToCustomDatabase(db_path, file) ==
    LET done == connect(db_path, db_path, file)
    IN  /\ current_db' = done.current_db
        /\ connection_info' = done.connection_info
        /\ call' = [fn |-> "connect_to_custom_database", db_path |-> db_path,
                    result |-> done.response]
        /\ UNCHANGED <<cacheVars, threadVars, catalog, schema, passes>>

GetCurrentConnectionInfo ==
    /\ call' = [fn |-> "get_current_connection_info",
                result |-> IF current_db = <<>>
                           THEN [connected |-> FALSE, connection_info |-> <<>>]
                           ELSE [connected |-> TRUE, connection_info |-> connection_info]]
    /\ UNCHANGED <<cacheVars, threadVars, catalog, schema, serviceVars>>

GetDatabaseTables ==
    /\ call' = [fn |-> "get_database_tables",
                result |-> IF current_db = <<>>
                           THEN [success |-> FALSE, error |-> "No database connection",
                                 tables |-> <<>>]
                           ELSE [success |-> TRUE, error |-> None,
                                 tables |-> current_db[1].usable_table_names]]
    /\ UNCHANGED <<cacheVars, threadVars, catalog, schema, serviceVars>>

TestCurrentConnection(file) ==
    /\ call' = [fn |-> "test_current_connection",
                result |-> IF current_db = <<>>
                           THEN [success |-> FALSE, error |-> "No database connection"]
                           ELSE [success |-> test_connection(file).is_working,
                                 error |-> test_connection(file).error]]
    /\ UNCHANGED <<cacheVars, threadVars, catalog, schema, serviceVars>>

\* a disconnect that drops the connection and keeps its description
DisconnectKeepingInfo ==
    /\ current_db' = <<>>
    /\ call' = [fn |-> "disconnect", result |-> [success |-> TRUE, error |-> None]]
    /\ UNCHANGED <<cacheVars, threadVars, catalog, schema, connection_info, passes>>

Disconnect ==
    /\ current_db' = <<>>
    /\ connection_info' = <<>>
    /\ call' = [fn |-> "disconnect", result |-> [success |-> TRUE, error |-> None]]
    /\ UNCHANGED <<cacheVars, threadVars, catalog, schema, passes>>

MaxPasses == 2

\* lines 74-121 of generate_sql on the schema that introspection returns: llm
\* is what the chat model does, "answers" or "raises"
generate_sql_on(sch, nl_query, emb, cosines, llm) ==
    LET tables == select_relevant_tables(sch, nl_query, 8, emb, cosines).tables
        order == CHOOSE o \in SetOrders(related_tables_of(sch, tables)) : TRUE
        schema_text == create_schema_context(sch, nl_query, TRUE, 8, emb, cosines, order).context
    IN  [fn |-> "generate_sql", nl_query |-> nl_query,
         error |-> IF llm = "raises" THEN "SQL generation failed" ELSE None,
         tables_used |-> [i \in 1..Len(tables) |-> tables[i].name],
         schema_text |-> schema_text]

\* generate_sql
GenerateSql(nl_query, emb, cosines, llm) ==
    IF current_db = <<>>
    THEN /\ call' = [fn |-> "generate_sql", nl_query |-> nl_query,
                     error |-> "No active database connection"]
         /\ UNCHANGED <<cacheVars, threadVars, catalog, schema, serviceVars>>
    ELSE /\ passes < MaxPasses
         /\ passes' = passes + 1
         /\ schema' = SchemaAt(current_db[1].path)
         /\ call' = generate_sql_on(SchemaAt(current_db[1].path), nl_query, emb, cosines, llm)
         /\ UNCHANGED <<cacheVars, threadVars, catalog, current_db, connection_info>>

\* the embedding capability: absent, or present with every table parallel to
\* the query
ServiceEmbeddings ==
    { <<"off", [name \in TableNamesOf([tables |-> <<CustomerInfo, InvoiceInfo, PaymentInfo>>])
                   |-> 0]>>,
      <<"on", [name \in TableNamesOf([tables |-> <<CustomerInfo, InvoiceInfo, PaymentInfo>>])
                  |-> CosScale]>> }

ServiceQueries == {CustomersAndInvoices, <<>>}

ServiceNext ==
    \/ \E file \in FileStates : ConnectToDefaultDatabase(file)
    \/ \E db_path \in DatabasePaths, file \in FileStates : ConnectToCustomDatabase(db_path, file)
    \/ GetCurrentConnectionInfo
    \/ GetDatabaseTables
    \/ \E file \in {"usable", "failing"} : TestCurrentConnection(file)
    \/ Disconnect
    \/ \E q \in ServiceQueries, e \in ServiceEmbeddings, llm \in {"answers", "raises"} :
          GenerateSql(q, e[1], e[2], llm)

SpecService == ServiceInit /\ [][ServiceNext]_vars

(***************************************************************************)
(* The keyed methods of CacheService (schema, table info, relationships,   *)
(* join paths, statistics).  Each builds its key with _generate_key and    *)
(* calls get, set, delete or clear.  Keys and names are sequences of       *)
(* characters.  `call` records the keyed method called, `op` the call of   *)
(* the store it made.                                                      *)
(***************************************************************************)
PREFIXES ==
    [schema |-> <<"s", "c", "h", "e", "m", "a", ":">>,
     relationships |-> <<"r", "e", "l", ":">>,
     tables |-> <<"t", "a", "b", "l", "e", ":">>,
     statistics |-> <<"s", "t", "a", "t", "s", ":">>,
     join_paths |-> <<"p", "a", "t", "h", ":">>,
     analysis |-> <<"a", "n", "a", "l", "y", "s", "i", "s", ":">>]

\* the two hexadecimal digits of each character that occurs in a key string
Hex ==
    [ch \in {":", "a", "b", "c", "e", "h", "i", "l", "m", "n", "p", "r", "s", "t", "y"} |->
        CASE ch = ":" -> <<"3", "a">>
          [] ch = "a" -> <<"6", "1">>
          [] ch = "b" -> <<"6", "2">>
          [] ch = "c" -> <<"6", "3">>
          [] ch = "e" -> <<"6", "5">>
          [] ch = "h" -> <<"6", "8">>
          [] ch = "i" -> <<"6", "9">>
          [] ch = "l" -> <<"6", "c">>
          [] ch = "m" -> <<"6", "d">>
          [] ch = "n" -> <<"6", "e">>
          [] ch = "p" -> <<"7", "0">>
          [] ch = "r" -> <<"7", "2">>
          [] ch = "s" -> <<"7", "3">>
          [] ch = "t" -> <<"7", "4">>
          [] ch = "y" -> <<"7", "9">>]

\* hashlib.md5(key_string.encode()).hexdigest(): a string of lowercase
\* hexadecimal digits.  The digest is taken to be injective on its input, and
\* is written as the hexadecimal digits of the input's characters.
RECURSIVE hexdigest(_)
hexdigest(key_string) ==
    IF key_string = <<>> THEN <<>>
    ELSE Hex[Head(key_string)] \o hexdigest(Tail(key_string))

\* CacheService._generate_key(prefix, *args)
generate_key(prefix, args) == hexdigest(join_text(<<":">>, <<prefix>> \o args))

\* the database names and table names the keyed methods are called with
CachedDatabases == {<<"a">>, <<"a", ":", "b">>}
CachedTables == {<<"c">>, <<"b", ":", "c">>}

\* the frame of a keyed method
KeyedFrame == UNCHANGED <<max_size, now, threadVars, catalog, schema, serviceVars>>

GetSchema(database_name) ==
    /\ get(generate_key(PREFIXES.schema, <<database_name>>))
    /\ call' = [fn |-> "get_schema", args |-> <<database_name>>, result |-> op'.result]
    /\ KeyedFrame

SetSchema(database_name) ==
    /\ set(generate_key(PREFIXES.schema, <<database_name>>), "schema", 1800)
    /\ call' = [fn |-> "set_schema", args |-> <<database_name>>, result |-> op'.result]
    /\ KeyedFrame

\* database_name is None or empty (<<>>), or a name
ClearSchemaCache(database_name) ==
    /\ IF database_name # <<>>
       THEN /\ delete(generate_key(PREFIXES.schema, <<database_name>>))
            /\ call' = [fn |-> "clear_schema_cache", args |-> <<database_name>>,
                        result |-> IF op'.result THEN 1 ELSE 0]
       ELSE /\ clear(FALSE, PREFIXES.schema)
            /\ call' = [fn |-> "clear_schema_cache", args |-> <<>>,
                        result |-> op'.result]
    /\ KeyedFrame

GetTableInfo(database_name, table_name) ==
    /\ get(generate_key(PREFIXES.tables, <<database_name, table_name>>))
    /\ call' = [fn |-> "get_table_info", args |-> <<database_name, table_name>>,
                result |-> op'.result]
    /\ KeyedFrame

SetTableInfo(database_name, table_name) ==
    /\ set(generate_key(PREFIXES.tables, <<database_name, table_name>>), "table_info", 3600)
    /\ call' = [fn |-> "set_table_info", args |-> <<database_name, table_name>>,
                result |-> op'.result]
    /\ KeyedFrame

SetRelationships(database_name) ==
    /\ set(generate_key(PREFIXES.relationships, <<database_name>>), "relationships", 1800)
    /\ call' = [fn |-> "set_relationships", args |-> <<database_name>>,
                result |-> op'.result]
    /\ KeyedFrame

SetJoinPaths(database_name, start_table, end_table) ==
    /\ set(generate_key(PREFIXES.join_paths, <<database_name, start_table, end_table>>),
           "paths", 3600)
    /\ call' = [fn |-> "set_join_paths",
                args |-> <<database_name, start_table, end_table>>,
                result |-> op'.result]
    /\ KeyedFrame

SetStatistics(database_name, table_name) ==
    /\ set(generate_key(PREFIXES.statistics, <<database_name, table_name>>),
           "statistics", 7200)
    /\ call' = [fn |-> "set_statistics", args |-> <<database_name, table_name>>,
                result |-> op'.result]
    /\ KeyedFrame

KeyedNext ==
    \/ \E d \in CachedDatabases : GetSchema(d)
    \/ \E d \in CachedDatabases : SetSchema(d)
    \/ \E d \in CachedDatabases \cup {<<>>} : ClearSchemaCache(d)
    \/ \E d \in CachedDatabases, t \in CachedTables : GetTableInfo(d, t)
    \/ \E d \in CachedDatabases, t \in CachedTables : SetTableInfo(d, t)
    \/ \E d \in CachedDatabases : SetRelationships(d)
    \/ \E d \in CachedDatabases, t \in CachedTables : SetJoinPaths(d, t, t)
    \/ \E d \in CachedDatabases, t \in CachedTables : SetStatistics(d, t)

SpecKeyed == Init /\ [][KeyedNext]_vars

(***************************************************************************)
(* materialize_join_edges (utils/schema_analyzer.py), on the schemas of    *)
(* the path model.                                                         *)
(***************************************************************************)
\* the relationship runs from table1 to table2
connects_forward(rel, table1, table2) ==
    rel.from_table = table1 /\ rel.to_table = table2

\* lines 233-234
connects(rel, table1, table2) ==
    \/ (rel.from_table = table1 /\ rel.to_table = table2)
    \/ (rel.from_table = table2 /\ rel.to_table = table1)

\* the mistake of leaving the loop after the first relationship of the schema
found_in_first(rels, table1, table2) ==
    IF rels # <<>> /\ connects(Head(rels), table1, table2) THEN <<Head(rels)>> ELSE <<>>

\* lines 231-236: the first relationship, in schema order, between the two
\* tables: <<>> for None, or <<rel>>
RECURSIVE found_relation(_, _, _)
found_relation(rels, table1, table2) ==
    IF rels = <<>> THEN <<>>
    ELSE IF connects(Head(rels), table1, table2) THEN <<Head(rels)>>
    ELSE found_relation(Tail(rels), table1, table2)

\* lines 242-248
placeholder(table1, table2) == ForeignKeyRelation(table1, "unknown", table2, "unknown")

\* lines 227-249: the edges of the steps i, i + 1, ... of the path
RECURSIVE edges_from(_, _, _)
edges_from(sch, path, i) ==
    IF i > Len(path) - 1 THEN <<>>
    ELSE LET found == found_relation(sch.relationships, path[i], path[i + 1])
         IN  (IF found # <<>> THEN found ELSE <<placeholder(path[i], path[i + 1])>>)
             \o edges_from(sch, path, i + 1)

materialize_join_edges(sch, path) ==
    IF Len(path) < 2 THEN <<>> ELSE edges_from(sch, path, 1)

\* schemas of up to MaxEdgeRels relationships, paths of up to MaxPathLen names
MaxEdgeRels == 2
MaxPathLen == 3

EdgesInit ==
    /\ CacheIdle
    /\ catalog = NoCatalog
    /\ \E rels \in SeqsUpTo(CandidateFKs, MaxEdgeRels) : schema = PathSchema(rels)
    /\ call = NoCoreCall

\* one call is made on the schema drawn
MaterializeJoinEdges(path) ==
    /\ call = NoCoreCall
    /\ call' = [fn |-> "materialize_join_edges", path |-> path,
                result |-> materialize_join_edges(schema, path)]
    /\ UNCHANGED <<cacheVars, threadVars, serviceVars, catalog, schema>>

EdgesNext == \E path \in SeqsUpTo(TableNames, MaxPathLen) : MaterializeJoinEdges(path)

SpecEdges == EdgesInit /\ [][EdgesNext]_vars

(***************************************************************************)
(* set() on a store that already holds entries.  The store is drawn with   *)
(* up to MaxStored entries, each last accessed at one of two times, in a   *)
(* cache constructed with room for at least that many; one set is made.    *)
(***************************************************************************)
MaxStored == 10

StoredLetters == <<"a", "b", "c", "d", "e", "f", "g", "h", "i", "j", "k">>

\* the i-th key stored, and a key that is not stored
StoredKey(i) == <<StoredLetters[i]>>
FreshKey == <<"n">>

\* an entry set at time 0 and last read at time last_accessed
StoredEntry(i, last_accessed) ==
    [CacheEntry(StoredKey(i), "v1", 1800, 0)
        EXCEPT !.last_accessed = last_accessed, !.access_count = last_accessed]

Stores ==
    UNION {{[i \in 1..n |-> StoredEntry(i, times[i])] : times \in [1..n -> {0, 1}]} :
               n \in 0..MaxStored}

EvictInit ==
    /\ cache \in Stores
    /\ max_size \in {m \in 1..MaxStored : Len(cache) <= m /\ m <= Len(cache) + 1}
    /\ now = 1
    /\ last_cleanup = 0
    /\ op = NoCall
    /\ ThreadInit
    /\ CoreIdle
    /\ ServiceIdle

\* one set is made on the store drawn
SetOnStore(k) ==
    /\ op = NoCall
    /\ set(k, "v2", 1800)
    /\ UNCHANGED <<max_size, now, threadVars, coreVars, serviceVars>>

EvictNext ==
    \/ SetOnStore(FreshKey)
    \/ \E i \in {1, Len(cache)} \ {0} : SetOnStore(StoredKey(i))

SpecEvict == EvictInit /\ [][EvictNext]_vars

(***************************************************************************)
(* materialize_join_edges applied to the path that find_shortest_join_path *)
(* returns on the same schema; the schemas are those of the path model.    *)
(***************************************************************************)
MaterializeFoundPath(start, end) ==
    /\ call = NoCoreCall
    /\ LET found == find_shortest_join_path(schema, start, end)
       IN  call' = [fn |-> "materialize_found_path", start |-> start, end |-> end,
                    found |-> found,
                    result |-> IF found.absent THEN <<>>
                               ELSE materialize_join_edges(schema, found.path)]
    /\ UNCHANGED <<cacheVars, threadVars, serviceVars, catalog, schema>>

FoundPathNext == \E start \in TableNames, end \in TableNames : MaterializeFoundPath(start, end)

SpecFoundPath == PathInit /\ [][FoundPathNext]_vars

(***************************************************************************)
(* analyze_relationships (utils/schema_analyzer.py)                        *)
(***************************************************************************)
AnalyzeTableOrder == <<"A", "B", "C", "D", "E", "F", "G">>

\* The foreign keys a schema of the statistics model is made of: three
\* disjoint pairs, a second reference to A, a reference from C to B and a
\* self-reference; each of them leaves a table listed after its target or
\* the target itself.
AnalyzeFKs ==
    { ForeignKeyRelation("B", "a_id", "A", "id"),
      ForeignKeyRelation("D", "c_id", "C", "id"),
      ForeignKeyRelation("F", "e_id", "E", "id"),
      ForeignKeyRelation("G", "a_id", "A", "id"),
      ForeignKeyRelation("C", "b_id", "B", "id"),
      ForeignKeyRelation("A", "parent_id", "A", "id") }

MaxAnalyzeRels == 4

AnalyzeSchema(rels) ==
    DatabaseSchema([i \in 1..Len(AnalyzeTableOrder) |-> PathTable(AnalyzeTableOrder[i], rels)],
                   rels)

\* lines 279-280 with one endpoint left out: only the referring table counted
count_from_table(counts, rel) ==
    IF \E i \in 1..Len(counts) : counts[i].name = rel.from_table
    THEN [i \in 1..Len(counts) |->
             IF counts[i].name = rel.from_table
             THEN [counts[i] EXCEPT !.count = @ + 1] ELSE counts[i]]
    ELSE Append(counts, [name |-> rel.from_table, count |-> 1])

\* table_relationship_count[name] = table_relationship_count.get(name, 0) + 1,
\* the dict kept as the list of its items in insertion order
count_endpoint(counts, name) ==
    IF \E i \in 1..Len(counts) : counts[i].name = name
    THEN [i \in 1..Len(counts) |->
             IF counts[i].name = name THEN [counts[i] EXCEPT !.count = @ + 1] ELSE counts[i]]
    ELSE Append(counts, [name |-> name, count |-> 1])

\* lines 279-280: both endpoints of a relationship, from_table first
count_relationship(counts, rel) ==
    count_endpoint(count_endpoint(counts, rel.from_table), rel.to_table)

\* lines 277-280
RECURSIVE table_relationship_count(_, _)
table_relationship_count(counts, rels) ==
    IF rels = <<>> THEN counts
    ELSE table_relationship_count(count_relationship(counts, Head(rels)), Tail(rels))

\* the place of item i after sorted(..., key=count, reverse=True): behind the
\* items of greater count and behind the earlier items of equal count
CountPlace(items, i) ==
    1 + Cardinality({j \in 1..Len(items) : items[j].count > items[i].count})
      + Cardinality({j \in 1..(i - 1) : items[j].count = items[i].count})

\* line 285
sorted_tables(items) ==
    [n \in 1..Len(items) |-> items[CHOOSE i \in 1..Len(items) : CountPlace(items, i) = n]]

MostConnected == 5

\* lines 258-263, 269-275 and 285-288
analyze_relationships(sch) ==
    LET rels == sch.relationships
        connected_tables == {rels[i].from_table : i \in 1..Len(rels)}
                                \cup {rels[i].to_table : i \in 1..Len(rels)}
        ranked == sorted_tables(table_relationship_count(<<>>, rels))
    IN  [total_tables |-> Len(sch.tables),
         total_relationships |-> Len(rels),
         tables_with_relationships |-> Cardinality(connected_tables),
         isolated_tables |-> TableNamesOf(sch) \ connected_tables,
         most_connected_tables |-> SubSeq(ranked, 1, Min(MostConnected, Len(ranked)))]

AnalyzeInit ==
    /\ CacheIdle
    /\ catalog = NoCatalog
    /\ \E rels \in SeqsUpTo(AnalyzeFKs, MaxAnalyzeRels) : schema = AnalyzeSchema(rels)
    /\ call = NoCoreCall

\* one call is made on the schema drawn
AnalyzeRelationships ==
    /\ call = NoCoreCall
    /\ call' = [fn |-> "analyze_relationships", result |-> analyze_relationships(schema)]
    /\ UNCHANGED <<cacheVars, threadVars, serviceVars, catalog, schema>>

AnalyzeNext == AnalyzeRelationships

SpecAnalyze == AnalyzeInit /\ [][AnalyzeNext]_vars

(***************************************************************************)
(* C1.  An entry created by set(key, value, ttl) and still stored is       *)
(* returned by get(key) when the time elapsed since that set is at most    *)
(* ttl, and get returns None and removes it when more time has elapsed;    *)
(* set stamps the entry with the time of the call, and no other call       *)
(* changes the creation time, TTL or value of an entry it leaves stored,   *)
(* however often get touched it.                                           *)
(***************************************************************************)
C1_GetStep(k) ==
    (op'.name = "get" /\ op'.key = k /\ Get(k) /\ k \in KeysOf(cache)) =>
        LET e == Lookup(cache, k)
        IN  IF now - e.created_at <= e.ttl_seconds
            THEN /\ op'.result = e.value
                 /\ k \in KeysOf(cache')
            ELSE /\ op'.result = None
                 /\ k \notin KeysOf(cache')

C1_SetStep(k) ==
    \A a \in SetArgs :
        (op'.name = "set" /\ op'.key = k /\ Set(k, a[1], a[2])) =>
            /\ k \in KeysOf(cache')
            /\ Lookup(cache', k).created_at = now
            /\ Lookup(cache', k).ttl_seconds = a[2]
            /\ Lookup(cache', k).value = a[1]

C1_Kept(k) ==
    (/\ k \in KeysOf(cache) \cap KeysOf(cache')
     /\ ~(op'.name = "set" /\ op'.key = k /\ \E a \in SetArgs : Set(k, a[1], a[2]))) =>
        /\ Lookup(cache', k).created_at = Lookup(cache, k).created_at
        /\ Lookup(cache', k).ttl_seconds = Lookup(cache, k).ttl_seconds
        /\ Lookup(cache', k).value = Lookup(cache, k).value

C1_TtlDecidesGet ==
    [][\A k \in Keys : C1_GetStep(k) /\ C1_SetStep(k) /\ C1_Kept(k)]_vars

\* a get has just found an entry past its TTL, after two earlier gets of it
C1_Witness ==
    /\ op.name = "get"
    /\ op.outcome = "expired"
    /\ op.touched >= 2
    /\ op.result = None
    /\ op.key \notin KeysOf(cache)

(***************************************************************************)
(* C2.  With calls made one at a time the store never holds more than      *)
(* max_size entries.                                                       *)
(***************************************************************************)
C2_SizeBound == Len(cache) <= max_size

\* a set of a further key has just found the store full and run the eviction
C2_Witness ==
    /\ op.name = "set"
    /\ op.outcome = "evicted_for_new_key"
    /\ max_size = 2
    /\ Len(cache) = max_size

(***************************************************************************)
(* C3.  Under any interleaving of set calls made by several threads the    *)
(* store never holds more than max_size entries.                           *)
(***************************************************************************)
C3_SizeBoundConcurrent == Len(cache) <= max_size

(***************************************************************************)
(* The foreign-key graph by itself: tables are adjacent when some          *)
(* relationship links them in either direction; Within(sch, n)[t] is the   *)
(* set of tables at most n edges away from t.                              *)
(***************************************************************************)
Adjacent(sch, a, b) ==
    \E i \in 1..Len(sch.relationships) :
        \/ sch.relationships[i].from_table = a /\ sch.relationships[i].to_table = b
        \/ sch.relationships[i].from_table = b /\ sch.relationships[i].to_table = a

InSomeRelationship(sch, t) == \E u \in TableNames : Adjacent(sch, t, u)

RECURSIVE Within(_, _, _)
Within(sch, t, n) ==
    IF n = 0 THEN {t}
    ELSE LET near == Within(sch, t, n - 1)
         IN  near \cup {u \in TableNames : \E w \in near : Adjacent(sch, w, u)}

Connected(sch, a, b) == b \in Within(sch, a, Cardinality(TableNames))

Distance(sch, a, b) ==
    CHOOSE n \in 0..Cardinality(TableNames) :
        /\ b \in Within(sch, a, n)
        /\ \A m \in 0..(n - 1) : b \notin Within(sch, a, m)

IsPathOf(sch, path, a, b) ==
    /\ Len(path) >= 1
    /\ path[1] = a
    /\ path[Len(path)] = b
    /\ \A i \in 1..(Len(path) - 1) : Adjacent(sch, path[i], path[i + 1])

PathCalled == call.fn = "find_shortest_join_path"

(***************************************************************************)
(* C4.  For distinct tables start and end connected in the foreign-key     *)
(* graph, find_shortest_join_path returns a path from start to end with    *)
(* the least possible number of edges; for A-B-C plus A-D-C the path from  *)
(* A to C has 3 nodes.                                                     *)
(***************************************************************************)
TwoJoinTables ==
    << ForeignKeyRelation("B", "a_id", "A", "id"),
       ForeignKeyRelation("B", "c_id", "C", "id"),
       ForeignKeyRelation("D", "a_id", "A", "id"),
       ForeignKeyRelation("D", "c_id", "C", "id") >>

C4_ShortestPath ==
    (PathCalled /\ call.start # call.end /\ Connected(schema, call.start, call.end)) =>
        /\ ~call.result.absent
        /\ IsPathOf(schema, call.result.path, call.start, call.end)
        /\ Len(call.result.path) - 1 = Distance(schema, call.start, call.end)
        /\ (schema.relationships = TwoJoinTables /\ call.start = "A" /\ call.end = "C")
              => Len(call.result.path) = 3

\* the search has answered for A and C on the graph A-B-C plus A-D-C
C4_Witness ==
    /\ PathCalled
    /\ schema.relationships = TwoJoinTables
    /\ call.start = "A"
    /\ call.end = "C"
    /\ Len(call.result.path) = 3

(***************************************************************************)
(* C5 as claimed.  The result is None for every pair (start, end) of which *)
(* an endpoint is in no relationship or whose endpoints are not connected. *)
(***************************************************************************)
C5_AbsentForEveryUnlinkedPair ==
    (/\ PathCalled
     /\ \/ ~InSomeRelationship(schema, call.start)
        \/ ~InSomeRelationship(schema, call.end)
        \/ ~Connected(schema, call.start, call.end)) => call.result.absent

(***************************************************************************)
(* C5 as amended.  For distinct start and end the result is None exactly   *)
(* when an endpoint is in no relationship or the endpoints are not         *)
(* connected; None is never the answer for start = end, and every list     *)
(* returned holds at least start.                                          *)
(***************************************************************************)
C5_AbsentForDistinctUnlinkedPair ==
    PathCalled =>
        /\ call.start # call.end =>
              (call.result.absent <=>
                  \/ ~InSomeRelationship(schema, call.start)
                  \/ ~InSomeRelationship(schema, call.end)
                  \/ ~Connected(schema, call.start, call.end))
        /\ call.start = call.end => ~call.result.absent
        /\ ~call.result.absent => Len(call.result.path) >= 1

\* None has been returned for two tables that both have foreign keys but lie
\* in different components
C5_Witness ==
    /\ PathCalled
    /\ call.start # call.end
    /\ InSomeRelationship(schema, call.start)
    /\ InSomeRelationship(schema, call.end)
    /\ ~Connected(schema, call.start, call.end)
    /\ call.result.absent

(***************************************************************************)
(* C6.  find_shortest_join_path(schema, A, A) is the one-element path [A]  *)
(* for every table name A, whether or not A has foreign keys.              *)
(***************************************************************************)
C6_SameTablePath ==
    (PathCalled /\ call.start = call.end) => call.result = PathResult(<<call.start>>)

\* the path [Z] has been returned for a table that no relationship touches,
\* on a schema that has relationships
C6_Witness ==
    /\ PathCalled
    /\ call.start = call.end
    /\ ~InSomeRelationship(schema, call.start)
    /\ schema.relationships # <<>>
    /\ call.result = PathResult(<<call.start>>)

(***************************************************************************)
(* C7.  generate_schema_hash gives the same digest for two introspections  *)
(* of the same database that differ only in the order in which tables and  *)
(* columns were reported.                                                  *)
(***************************************************************************)
C7_HashIgnoresOrder ==
    call.fn = "generate_schema_hash_again" => call.result = call.before

(***************************************************************************)
(* C10.  In every DatabaseSchema that introspect_schema returns,           *)
(* relationships holds the relations of the tables' foreign_keys lists,    *)
(* each as often as the lists hold it and nothing else, and total_tables   *)
(* is the number of tables; for Customer(CustomerId PK, Name) and          *)
(* Invoice(InvoiceId PK, CustomerId -> Customer.CustomerId) it has two     *)
(* tables and the one relationship Invoice.CustomerId ->                   *)
(* Customer.CustomerId.                                                    *)
(***************************************************************************)
Occurrences(seq, x) == Cardinality({i \in 1..Len(seq) : seq[i] = x})

RECURSIVE OccurrencesInTables(_, _)
OccurrencesInTables(tables, x) ==
    IF tables = <<>> THEN 0
    ELSE Occurrences(Head(tables).foreign_keys, x) + OccurrencesInTables(Tail(tables), x)

ForeignKeysOfTables(sch) ==
    UNION {Range(sch.tables[i].foreign_keys) : i \in 1..Len(sch.tables)}

CustomerInvoice == <<Customer, Invoice>>

InvoiceToCustomer == ForeignKeyRelation("Invoice", "CustomerId", "Customer", "CustomerId")

SchemaReturned == call.fn # "none" /\ ~(call.fn = "introspect_schema" /\ call.raised)

C10_RelationshipsAreTheForeignKeys ==
    SchemaReturned =>
        /\ Range(schema.relationships) = ForeignKeysOfTables(schema)
        /\ \A rel \in Range(schema.relationships) \cup ForeignKeysOfTables(schema) :
              Occurrences(schema.relationships, rel) = OccurrencesInTables(schema.tables, rel)
        /\ schema.total_tables = Len(schema.tables)
        /\ Len(schema.tables) = Len(catalog)
        /\ catalog = CustomerInvoice =>
              /\ schema.total_tables = 2
              /\ schema.relationships = <<InvoiceToCustomer>>

\* the Customer/Invoice database has been introspected
C10_Witness ==
    /\ call.fn = "introspect_schema"
    /\ ~call.raised
    /\ catalog = CustomerInvoice
    /\ schema.total_tables = 2
    /\ schema.relationships = <<InvoiceToCustomer>>

\* a select_relevant_tables call has returned
Ranked == call.fn = "select_relevant_tables"

\* 0 <= 0.6 * inter / sqrt(norm2) + 0.4 * cos / CosScale <= 1
InUnitInterval(score) ==
    /\ ~SurdLess(3 * CosScale * score.inter, 0 - 2 * score.cos, score.norm2)
    /\ ~SurdGreater(3 * CosScale * score.inter, 5 * CosScale - 2 * score.cos, score.norm2)

(***************************************************************************)
(* C8.  Every combined score in the score map that select_relevant_tables  *)
(* returns lies in [0,1], with semantic scoring active (cosine anywhere in *)
(* [-1,1]) or unavailable.                                                 *)
(***************************************************************************)
C8_CombinedScoreInUnitInterval ==
    Ranked => \A name \in DOMAIN call.result.scores : InUnitInterval(call.result.scores[name])

\* keyword scores as numbers: inter / sqrt(norm2)
KwPositive(kw) == kw.inter > 0

KwZero(kw) == kw.inter = 0

KwAtMostOne(kw) == kw.inter * kw.inter <= kw.norm2

KwAtLeast(kw1, kw2) == kw1.inter * kw1.inter * kw2.norm2 >= kw2.inter * kw2.inter * kw1.norm2

\* text occurs in str as a run of consecutive characters
OccursIn(text, str) ==
    \E i \in 1..(Len(str) - Len(text) + 1) : SubSeq(str, i, i + Len(text) - 1) = text

\* the query contains the table's exact name and no other tokens
NamesOnly(nl_query, t) ==
    /\ OccursIn(t.name, nl_query)
    /\ Range(tokenize(nl_query)) \subseteq Range(tokenize(t.name))

SharesNoToken(nl_query, t) == Range(tokenize(nl_query)) \cap table_keywords(t) = {}

NamedTableScoresHighest(t) ==
    /\ KwPositive(call.result.kw_scores[t.name])
    /\ \A i \in 1..Len(schema.tables) :
          SharesNoToken(call.nl_query, schema.tables[i])
              => KwAtLeast(call.result.kw_scores[t.name],
                           call.result.kw_scores[schema.tables[i].name])

KeywordScoreBounds ==
    \A i \in 1..Len(schema.tables) :
        LET t == schema.tables[i]
            kw == call.result.kw_scores[t.name]
        IN  /\ kw.inter >= 0
            /\ KwAtMostOne(kw)
            /\ (tokenize(call.nl_query) = <<>> \/ table_keywords(t) = {}) => KwZero(kw)

(***************************************************************************)
(* C9, as stated.  For a query that contains a table's exact name and no   *)
(* other tokens, that table's keyword score is strictly positive and at    *)
(* least the keyword score of every table whose vocabulary shares no token *)
(* with the query; every keyword score lies in [0,1] and is 0 when either  *)
(* token set is empty.                                                     *)
(***************************************************************************)
C9_NamedTableAlwaysPositive ==
    Ranked =>
        /\ \A i \in 1..Len(schema.tables) :
              NamesOnly(call.nl_query, schema.tables[i])
                  => NamedTableScoresHighest(schema.tables[i])
        /\ KeywordScoreBounds

(***************************************************************************)
(* C9, amended.  The same, for a table whose name has at least one token:  *)
(* a name made only of characters outside a-z, 0-9 and _ gives the query   *)
(* no token, and the keyword score is then 0.                              *)
(***************************************************************************)
C9_NamedTableWithTokensPositive ==
    Ranked =>
        /\ \A i \in 1..Len(schema.tables) :
              (NamesOnly(call.nl_query, schema.tables[i])
                   /\ tokenize(schema.tables[i].name) # <<>>)
                  => NamedTableScoresHighest(schema.tables[i])
        /\ KeywordScoreBounds

\* the query "As" names the table As, and the table é shares no token with it
C9_Witness ==
    /\ Ranked
    /\ call.nl_query = <<"A", "s">>
    /\ \E i, j \in 1..Len(schema.tables) :
          /\ schema.tables[i].name = <<"A", "s">>
          /\ NamesOnly(call.nl_query, schema.tables[i])
          /\ KwPositive(call.result.kw_scores[schema.tables[i].name])
          /\ SharesNoToken(call.nl_query, schema.tables[j])
          /\ KwZero(call.result.kw_scores[schema.tables[j].name])

\* a create_schema_context call has returned
ContextBuilt == call.fn = "create_schema_context"

\* 'joins <other> ON <this>.<col> = <other>.<col>' for a foreign key of table t
JoinText(t, fk) ==
    <<"j", "o", "i", "n", "s", " ">> \o fk.to_table \o <<" ", "O", "N", " ">> \o t.name \o <<".">> \o fk.from_column
        \o <<" ", "=", " ">> \o fk.to_table \o <<".">> \o fk.to_column

HasLineWith(context, text) == \E i \in 1..Len(context) : OccursIn(text, context[i])

CustomerInvoiceScenario ==
    /\ ContextBuilt
    /\ Range(schema.tables) = {CustomerInfo, InvoiceInfo}
    /\ call.nl_query = CustomersAndInvoices
    /\ call.max_tables = 8

(***************************************************************************)
(* C11.  The context built for a query has a 'joins <other> ON             *)
(* <this>.<col> = <other>.<col>' line for a foreign key of a listed table  *)
(* exactly when the foreign key's target table is in the final table set   *)
(* too; for the Customer/Invoice schema, the query "show me customers and  *)
(* their invoices" and top_k = 8 both tables are selected and the line     *)
(* 'joins Customer ON Invoice.CustomerId = Customer.CustomerId' is there.  *)
(***************************************************************************)
C11_JoinLinesWithinFinalSet ==
    ContextBuilt =>
        /\ \A i \in 1..Len(call.result.tables) :
              \A k \in 1..Len(call.result.tables[i].foreign_keys) :
                  LET t == call.result.tables[i]
                      fk == t.foreign_keys[k]
                  IN  HasLineWith(call.result.context, JoinText(t, fk))
                          <=> HasTableNamed(call.result.tables, fk.to_table)
        /\ CustomerInvoiceScenario =>
              /\ Range(call.result.tables) = {CustomerInfo, InvoiceInfo}
              /\ HasLineWith(call.result.context,
                     <<"j", "o", "i", "n", "s", " ", "C", "u", "s", "t", "o", "m", "e", "r", " ", "O", "N", " ", "I", "n", "v", "o", "i", "c", "e", ".", "C", "u", "s", "t", "o", "m", "e", "r", "I", "d", " ", "=", " ", "C", "u", "s", "t", "o", "m", "e", "r", ".", "C", "u", "s", "t", "o", "m", "e", "r", "I", "d">>)

\* the scenario has happened: both tables are listed and the line is there
C11_Witness ==
    /\ CustomerInvoiceScenario
    /\ Len(call.result.tables) = 2
    /\ HasLineWith(call.result.context, JoinText(InvoiceInfo, InvoiceInfo.foreign_keys[1]))

\* a get_related_tables_for_query call with include_relationships=True has returned
Expanded == call.fn = "get_related_tables_for_query" /\ call.include_relationships

\* the tables of the schema adjacent by a foreign key to a table the ranking selected
AdjacentToSelected(sch, selected) ==
    {t \in Range(sch.tables) : t.name \in related_tables_of(sch, selected)}

\* for these arguments, include_relationships=True returns a table that
\* include_relationships=False does not
ExpansionAddsATable(sch, nl_query, max_tables, emb, cosines) ==
    LET selected == get_related_tables_for_query(sch, nl_query, FALSE, max_tables, emb,
                                                 cosines, <<>>)
    IN  \E order \in SetOrders(related_tables_of(sch, selected)) :
            ~(Range(get_related_tables_for_query(sch, nl_query, TRUE, max_tables, emb,
                                                 cosines, order))
                 \subseteq Range(selected))

(***************************************************************************)
(* C12.  With include_relationships=True every table adjacent by a foreign *)
(* key to a table the ranking selected is in the final table set, up to    *)
(* max_tables tables in total, also when its own score is below the        *)
(* ranking cutoff; so for some schema, query and max_tables the result     *)
(* with include_relationships=True has a table that the result with        *)
(* include_relationships=False has not.                                    *)
(***************************************************************************)
C12_ExpansionAddsAdjacentTables ==
    /\ Expanded =>
          \A t \in AdjacentToSelected(schema,
                       select_relevant_tables(schema, call.nl_query, call.max_tables,
                                              call.emb, call.cosines).tables) :
              t \in Range(call.result) \/ Len(call.result) >= call.max_tables
    /\ \E sch \in ContextSchemas, q \in ContextQueries, m \in MaxTablesArgs :
          \E e \in EmbeddingsOf(sch) : ExpansionAddsATable(sch, q, m, e[1], e[2])

(***************************************************************************)
(* C13.  Of two consecutive generate_sql requests against the same         *)
(* connected database, with no refresh and no cache expiry in between, the *)
(* second is served from the cached schema: together they make at most one *)
(* introspection pass, so the second makes none.                           *)
(***************************************************************************)
C13_SecondRequestUsesCachedSchema ==
    [][(/\ call.fn = "generate_sql"
        /\ current_db # <<>>
        /\ call.error = None
        /\ current_db' = current_db
        /\ call'.fn = "generate_sql")
           => passes' = passes]_vars

Connects == {"connect_to_default_database", "connect_to_custom_database"}

(***************************************************************************)
(* C19.  DatabaseService holds at most one connection and reports its      *)
(* state faithfully over any sequence of connect and disconnect calls: it  *)
(* starts disconnected; get_current_connection_info reports connected,     *)
(* with the stored connection info, exactly when a connection is held; a   *)
(* successful connect replaces the previous connection; after disconnect   *)
(* there is no connection and no connection info, and get_database_tables  *)
(* then fails with 'No database connection'.                               *)
(***************************************************************************)
C19_ConnectionStateFaithful ==
    /\ call = NoCoreCall => current_db = <<>> /\ connection_info = <<>>
    /\ Len(current_db) <= 1
    /\ current_db = <<>> <=> connection_info = <<>>
    /\ current_db # <<>> =>
          connection_info[1].tables_count = Len(current_db[1].usable_table_names)
    /\ call.fn = "get_current_connection_info" =>
          /\ call.result.connected <=> current_db # <<>>
          /\ call.result.connection_info = connection_info
    /\ (call.fn \in Connects /\ call.result.success) =>
          /\ current_db = <<SQLDatabase(call.db_path)>>
          /\ connection_info = call.result.connection_info
          /\ connection_info # <<>>
    /\ call.fn = "disconnect" => current_db = <<>> /\ connection_info = <<>>
    /\ (call.fn = "get_database_tables" /\ current_db = <<>>) =>
          ~call.result.success /\ call.result.error = "No database connection"

\* a connection was held and used, and has been dropped by disconnect
C19_Witness ==
    /\ call.fn = "disconnect"
    /\ passes >= 1
    /\ current_db = <<>>

(***************************************************************************)
(* C14.  exists(key) returns true exactly when get(key), made in the same  *)
(* state, would return a value other than None, and exists changes no      *)
(* entry's last-access time or access counter.                             *)
(***************************************************************************)
ExistsStep(k) == op'.name = "exists" /\ op'.key = k /\ Exists(k)

\* every entry stored after the step was stored before it, field for field
C14_NoEntryTouched ==
    \A j \in 1..Len(cache') :
        /\ cache'[j].key \in KeysOf(cache)
        /\ cache'[j] = Lookup(cache, cache'[j].key)

StoredUnexpired(k) == k \in KeysOf(cache) /\ ~is_expired(Lookup(cache, k), now)

C14_ExistsIffGetReturnsValue ==
    [][\A k \in Keys :
          ExistsStep(k) =>
              /\ op'.result = (get_returns(Swept[1], k, now) # None)
              /\ C14_NoEntryTouched]_vars

(***************************************************************************)
(* C14, amended.  exists(key) returns true exactly when the key is stored  *)
(* and its entry has not expired at the time of the call, which is when    *)
(* get(key) would return the entry's stored value; for an entry whose      *)
(* stored value is not None that is exactly get returning other than None  *)
(* (an unexpired entry storing None exists, and get returns None for it);  *)
(* exists changes no entry's last-access time or access counter.           *)
(***************************************************************************)
C14_ExistsIffStoredUnexpired ==
    [][\A k \in Keys :
          ExistsStep(k) =>
              /\ op'.result = StoredUnexpired(k)
              /\ StoredUnexpired(k) =>
                     get_returns(Swept[1], k, now) = Lookup(cache, k).value
              /\ (k \in KeysOf(cache) /\ Lookup(cache, k).value # None) =>
                     op'.result = (get_returns(Swept[1], k, now) # None)
              /\ C14_NoEntryTouched]_vars

\* exists has just answered true for an entry that get touched before
C14_Witness ==
    /\ op.name = "exists"
    /\ op.result = TRUE
    /\ op.key \in KeysOf(cache)
    /\ Lookup(cache, op.key).access_count >= 1
    /\ Lookup(cache, op.key).value # None

(***************************************************************************)
(* C15.  clear(prefix) removes exactly the entries whose stored key starts *)
(* with prefix, returns the number it removed, and leaves every other      *)
(* entry present with unchanged value and metadata; clear() with no prefix *)
(* removes every entry and returns the number of entries that were stored. *)
(***************************************************************************)
ClearStep(no_prefix, prefix) ==
    /\ op'.name = (IF no_prefix THEN "clear" ELSE "clear_prefix")
    /\ op'.key = prefix
    /\ Clear(no_prefix, prefix)

\* key is prefix followed by some, possibly no, further characters
BeginsWith(key, prefix) == \E n \in 0..Len(key) : SubSeq(key, 1, n) = prefix

C15_PrefixStep(prefix) ==
    ClearStep(FALSE, prefix) =>
        /\ KeysOf(cache') = {k \in KeysOf(cache) : ~BeginsWith(k, prefix)}
        /\ op'.result = Cardinality({k \in KeysOf(cache) : BeginsWith(k, prefix)})
        /\ op'.result = Len(cache) - Len(cache')
        /\ \A k \in KeysOf(cache') : Lookup(cache', k) = Lookup(cache, k)

C15_AllStep ==
    ClearStep(TRUE, <<>>) =>
        /\ cache' = <<>>
        /\ op'.result = Len(cache)

C15_ClearRemovesExactlyThePrefixed ==
    [][C15_AllStep /\ \A prefix \in Prefixes : C15_PrefixStep(prefix)]_vars

\* clear(prefix) has just removed an entry and kept one that get had touched
C15_Witness ==
    /\ op.name = "clear_prefix"
    /\ op.result >= 1
    /\ cache # <<>>
    /\ cache[1].access_count >= 1

(***************************************************************************)
(* C16.  clear_schema_cache() without a database name removes every entry  *)
(* stored through set_schema, for every database name, returns how many it *)
(* removed, and leaves the entries of the other data classes in place;     *)
(* with a database name it removes only that database's schema entry.      *)
(***************************************************************************)
SchemaKeys == {generate_key(PREFIXES.schema, <<d>>) : d \in CachedDatabases}

KeptAsTheyWere(keys) ==
    \A k \in keys : k \in KeysOf(cache') /\ Lookup(cache', k) = Lookup(cache, k)

C16_AllSchemasStep ==
    (call'.fn = "clear_schema_cache" /\ call'.args = <<>> /\ ClearSchemaCache(<<>>)) =>
        /\ KeysOf(cache') \cap SchemaKeys = {}
        /\ call'.result = Cardinality(KeysOf(cache) \cap SchemaKeys)
        /\ KeptAsTheyWere(KeysOf(cache) \ SchemaKeys)

C16_OneSchemaStep(d) ==
    (call'.fn = "clear_schema_cache" /\ call'.args = <<d>> /\ ClearSchemaCache(d)) =>
        /\ generate_key(PREFIXES.schema, <<d>>) \notin KeysOf(cache')
        /\ call'.result =
               (IF generate_key(PREFIXES.schema, <<d>>) \in KeysOf(cache) THEN 1 ELSE 0)
        /\ KeptAsTheyWere(KeysOf(cache) \ {generate_key(PREFIXES.schema, <<d>>)})

C16_ClearSchemaCacheRemovesSchemas ==
    [][C16_AllSchemasStep /\ \A d \in CachedDatabases : C16_OneSchemaStep(d)]_vars

(***************************************************************************)
(* C17.  _generate_key maps any two different (prefix, argument tuple)     *)
(* inputs to different keys, the digest being injective: the key a keyed   *)
(* method has just used is the key of no other input of the keyed methods. *)
(***************************************************************************)
PrefixOf ==
    [get_schema |-> PREFIXES.schema, set_schema |-> PREFIXES.schema,
     clear_schema_cache |-> PREFIXES.schema,
     get_table_info |-> PREFIXES.tables, set_table_info |-> PREFIXES.tables,
     set_relationships |-> PREFIXES.relationships,
     set_join_paths |-> PREFIXES.join_paths,
     set_statistics |-> PREFIXES.statistics]

\* the (prefix, argument tuple) inputs of _generate_key
KeyInputs ==
    {<<pre, <<d>>>> : pre \in {PREFIXES.schema, PREFIXES.relationships},
                      d \in CachedDatabases}
    \cup {<<pre, <<d, t>>>> : pre \in {PREFIXES.tables, PREFIXES.statistics},
                              d \in CachedDatabases, t \in CachedTables}
    \cup {<<PREFIXES.join_paths, <<d, t, u>>>> :
              d \in CachedDatabases, t \in CachedTables, u \in CachedTables}

C17_KeysDoNotCollide ==
    (call.fn \in DOMAIN PrefixOf /\ call.args # <<>>) =>
        \A i \in KeyInputs :
            i # <<PrefixOf[call.fn], call.args>> =>
                generate_key(i[1], i[2]) # generate_key(PrefixOf[call.fn], call.args)

(***************************************************************************)
(* C18.  Introspecting a database whose catalog reports zero tables is an  *)
(* introspection failure: introspect_schema raises and returns no schema,  *)
(* so no schema with zero tables is ever returned.                         *)
(***************************************************************************)
C18_ZeroTablesIsFailure ==
    /\ (call.fn = "introspect_schema" /\ Len(catalog) = 0) => call.raised
    /\ SchemaReturned => schema.total_tables >= 1

(***************************************************************************)
(* C20.  materialize_join_edges returns exactly len(path) - 1 relations    *)
(* for a path of at least two table names and none for a shorter path:     *)
(* the i-th is a relationship of the schema between path[i] and path[i+1], *)
(* in either direction, when the schema has one, and otherwise a           *)
(* placeholder from path[i] to path[i+1] whose column names are 'unknown'. *)
(***************************************************************************)
Between(rel, t, u) ==
    {rel.from_table, rel.to_table} = {t, u} /\ (t = u => rel.from_table = rel.to_table)

C20_EdgeOfStep(edge, t, u) ==
    IF \E rel \in Range(schema.relationships) : Between(rel, t, u)
    THEN edge \in Range(schema.relationships) /\ Between(edge, t, u)
    ELSE /\ edge.from_table = t
         /\ edge.to_table = u
         /\ edge.from_column = "unknown"
         /\ edge.to_column = "unknown"

C20_OneEdgePerStep ==
    call.fn = "materialize_join_edges" =>
        /\ Len(call.result) = (IF Len(call.path) >= 2 THEN Len(call.path) - 1 ELSE 0)
        /\ \A i \in 1..Len(call.result) :
              C20_EdgeOfStep(call.result[i], call.path[i], call.path[i + 1])

\* a three-table path whose first step is a foreign key of the second table to
\* the first and whose second step has no relationship
C20_Witness ==
    /\ call.fn = "materialize_join_edges"
    /\ Len(call.path) = 3
    /\ call.result[1] \in Range(schema.relationships)
    /\ call.result[1].from_table = call.path[2]
    /\ call.result[1].to_table = call.path[1]
    /\ call.path[1] # call.path[2]
    /\ call.result[2].from_column = "unknown"

(***************************************************************************)
(* C21.  When a set finds the store holding n >= max_size entries, its     *)
(* eviction pass removes exactly max(1, floor(n/5)) entries before the new *)
(* entry is admitted, and every removed entry has a last-access time no    *)
(* later than that of every entry that survives the pass.                  *)
(***************************************************************************)
\* the step is a set of key k (the store it finds needs no sweep in SpecEvict)
SetStepOf(k) == op'.name = "set" /\ op'.key = k /\ op # op'

\* entries stored under other keys than k: those the step removed, those it kept
RemovedOthers(k) == {e \in Range(cache) : e.key # k /\ e \notin Range(cache')}
KeptOthers(k) == {e \in Range(cache') : e.key # k}

NoLaterThan(removed, kept) ==
    \A r \in removed : \A e \in kept : r.last_accessed <= e.last_accessed

\* the pass removed `count` entries of the store, the oldest ones
C21_PassRemoved(k, count) ==
    /\ KeptOthers(k) \subseteq Range(cache)
    /\ NoLaterThan(RemovedOthers(k), KeptOthers(k))
    /\ IF k \notin KeysOf(cache)
       THEN /\ Cardinality(RemovedOthers(k)) = count
            /\ Len(cache') = Len(cache) - count + 1
       ELSE \/ \* the entry of k survived the pass and was replaced in place
               /\ Cardinality(RemovedOthers(k)) = count
               /\ Len(cache') = Len(cache) - count
               /\ NoLaterThan(RemovedOthers(k), {Lookup(cache, k)})
            \/ \* the entry of k was removed by the pass and k admitted anew
               /\ Cardinality(RemovedOthers(k)) = count - 1
               /\ Len(cache') = Len(cache) - count + 1
               /\ NoLaterThan({Lookup(cache, k)}, KeptOthers(k))

C22_SetStep(k) ==
    (/\ op'.name = "set"
     /\ op'.key = k
     /\ Len(cache) < max_size
     /\ \E a \in SetArgs : Set(k, a[1], a[2])) =>
        /\ \A e \in Range(cache) :
              (e.key # k /\ ~is_expired(e, now)) => e \in Range(cache')
        /\ \A e \in Range(cache) \ Range(cache') : e.key = k \/ is_expired(e, now)
        /\ \A e \in Range(cache') : e.key # k => e \in Range(cache)
        /\ Cardinality({i \in 1..Len(cache') : cache'[i].key = k}) = 1
        /\ Lookup(cache', k).access_count = 0
        /\ Lookup(cache', k).created_at = now
        /\ Lookup(cache', k).last_accessed = now

C22_SetBelowCapacityEvictsNothing == [][\A k \in Keys : C22_SetStep(k)]_vars

\* a set has just admitted a second entry next to one that get had touched
C22_Witness ==
    /\ op.name = "set"
    /\ op.outcome = "admitted"
    /\ Len(cache) = 2
    /\ cache[1].access_count >= 1
    /\ cache[2].key = op.key

(***************************************************************************)
(* C23.  The expiry sweep is rate-limited, concurrent callers included: a  *)
(* sweep runs only when at least cleanup_interval has passed since the     *)
(* time stamped by the sweep before it, and a sweep leaves no entry that   *)
(* is past its TTL at that moment.                                         *)
(***************************************************************************)
SweepStepOf(t) == pc[t].at = "cleanup_sweep" /\ pc'[t].at = "evict_test"

C23_SweepsAtLeastAnIntervalApart ==
    [][\A t \in Threads :
          SweepStepOf(t) =>
              /\ now - last_cleanup >= cleanup_interval
              /\ \A e \in Range(cache') : ~is_expired(e, now)]_vars

(***************************************************************************)
(* C24.  A get that hits an unexpired entry increases that entry's access  *)
(* counter by exactly one and sets its last-access time to the current     *)
(* time, and changes no field of any other entry; a get that misses (key   *)
(* absent or entry expired) changes no field of any entry it leaves stored.*)
(***************************************************************************)
C24_GetStep(k) ==
    (op'.name = "get" /\ op'.key = k /\ Get(k)) =>
        IF StoredUnexpired(k)
        THEN /\ k \in KeysOf(cache')
             /\ Lookup(cache', k) =
                    [Lookup(cache, k) EXCEPT !.access_count = @ + 1, !.last_accessed = now]
             /\ \A e \in Range(cache') : e.key # k => e \in Range(cache)
        ELSE \A e \in Range(cache') : e \in Range(cache)

C24_GetTouchesOnlyTheEntryHit == [][\A k \in Keys : C24_GetStep(k)]_vars

\* a get has just hit, for the second time and later than it was set, one of
\* two stored entries
C24_Witness ==
    /\ op.name = "get"
    /\ op.outcome = "hit"
    /\ Len(cache) = 2
    /\ Lookup(cache, op.key).access_count = 2
    /\ Lookup(cache, op.key).last_accessed > Lookup(cache, op.key).created_at

(***************************************************************************)
(* C25.  select_relevant_tables returns the schema's tables in             *)
(* non-increasing order of combined score, tables of equal score in schema *)
(* order, cut to the first top_k (min(top_k, number of tables) tables for  *)
(* top_k >= 0), with a score map that holds the combined score of every    *)
(* table of the schema, returned or not.                                   *)
(***************************************************************************)
PlaceInSchema(t) == CHOOSE i \in 1..Len(schema.tables) : schema.tables[i] = t

ScoreOf(t) == call.result.scores[t.name]

\* t comes before u in the full ranking: higher score, or equal score and
\* earlier in the schema
RanksBefore(t, u) ==
    \/ ScoreGreater(ScoreOf(t), ScoreOf(u))
    \/ /\ ~ScoreGreater(ScoreOf(u), ScoreOf(t))
       /\ PlaceInSchema(t) < PlaceInSchema(u)

\* the score of the map is 0.6 * keyword score + 0.4 * semantic score
IsCombinedScoreOf(score, t) ==
    score = combine(keyword_score(call.nl_query, t),
                    IF call.emb = "on" THEN call.cosines[t.name] ELSE 0)

C25_RankedByScoreThenSchemaOrder ==
    Ranked =>
        LET returned == call.result.tables
        IN  /\ Len(returned) = Min(call.top_k, Len(schema.tables))
            /\ Range(returned) \subseteq Range(schema.tables)
            /\ \A i, j \in 1..Len(returned) : i < j => RanksBefore(returned[i], returned[j])
            /\ \A t \in Range(schema.tables) \ Range(returned) :
                  \A i \in 1..Len(returned) : RanksBefore(returned[i], t)
            /\ DOMAIN call.result.scores = TableNamesOf(schema)
            /\ \A t \in Range(schema.tables) : IsCombinedScoreOf(ScoreOf(t), t)

\* two tables of equal score, the first of the schema returned and the second
\* cut off by top_k = 1
C25_Witness ==
    /\ Ranked
    /\ call.top_k = 1
    /\ Len(schema.tables) = 2
    /\ call.result.tables = <<schema.tables[1]>>
    /\ ~ScoreGreater(ScoreOf(schema.tables[1]), ScoreOf(schema.tables[2]))
    /\ KwPositive(call.result.kw_scores[schema.tables[1].name])

(***************************************************************************)
(* C26.  As claimed: most_connected_tables holds at most five tables in    *)
(* non-increasing order of degree (the number of relationship endpoints at *)
(* the table), tables of equal degree in the order of the schema's table   *)
(* list, and isolated_tables is exactly the set of schema tables touched   *)
(* by no relationship.  The code breaks ties by the order in which the     *)
(* tables first appear as an endpoint in the relationship list.            *)
(***************************************************************************)
Analyzed == call.fn = "analyze_relationships"

Degree(name) ==
    Cardinality({i \in 1..Len(schema.relationships) : schema.relationships[i].from_table = name})
      + Cardinality({i \in 1..Len(schema.relationships) : schema.relationships[i].to_table = name})

Endpoints ==
    {schema.relationships[i].from_table : i \in 1..Len(schema.relationships)}
        \cup {schema.relationships[i].to_table : i \in 1..Len(schema.relationships)}

PlaceOfName(name) == CHOOSE i \in 1..Len(schema.tables) : schema.tables[i].name = name

\* the first mention of a table in the relationship list, the referring table
\* of a relationship mentioned before its target
FirstMention(name) ==
    LET rels == schema.relationships
        i == CHOOSE n \in 1..Len(rels) :
                 /\ name \in {rels[n].from_table, rels[n].to_table}
                 /\ \A m \in 1..(n - 1) : name \notin {rels[m].from_table, rels[m].to_table}
    IN  IF rels[i].from_table = name THEN 2 * i - 1 ELSE 2 * i

MostConnectedNames ==
    {call.result.most_connected_tables[i].name :
        i \in 1..Len(call.result.most_connected_tables)}

\* the parts of the claim that do not depend on how ties are broken
C26_TopFiveByDegree ==
    LET most == call.result.most_connected_tables
    IN  /\ Len(most) = Min(MostConnected, Cardinality(Endpoints))
        /\ MostConnectedNames \subseteq Endpoints
        /\ \A i \in 1..Len(most) : most[i].count = Degree(most[i].name)
        /\ \A i, j \in 1..Len(most) : i < j => most[i].name # most[j].name
        /\ \A i, j \in 1..Len(most) : i < j => most[i].count >= most[j].count
        /\ \A name \in Endpoints \ MostConnectedNames :
              \A i \in 1..Len(most) : most[i].count >= Degree(name)
        /\ call.result.isolated_tables = {name \in TableNamesOf(schema) : Degree(name) = 0}

C26_TiesInSchemaOrder ==
    Analyzed =>
        /\ C26_TopFiveByDegree
        /\ LET most == call.result.most_connected_tables
           IN  /\ \A i, j \in 1..Len(most) :
                     (i < j /\ most[i].count = most[j].count)
                         => PlaceOfName(most[i].name) < PlaceOfName(most[j].name)
               /\ \A name \in Endpoints \ MostConnectedNames : \A i \in 1..Len(most) :
                     most[i].count = Degree(name) => PlaceOfName(most[i].name) < PlaceOfName(name)

\* C26, amended: tables of equal degree appear in the order of their first
\* mention in the relationship list
C26_TiesInOrderOfFirstMention ==
    Analyzed =>
        /\ C26_TopFiveByDegree
        /\ LET most == call.result.most_connected_tables
           IN  /\ \A i, j \in 1..Len(most) :
                     (i < j /\ most[i].count = most[j].count)
                         => FirstMention(most[i].name) < FirstMention(most[j].name)
               /\ \A name \in Endpoints \ MostConnectedNames : \A i \in 1..Len(most) :
                     most[i].count = Degree(name) => FirstMention(most[i].name) < FirstMention(name)

\* six tables have relationships, five are reported, and a table of higher
\* degree mentioned late comes first
C26_Witness ==
    /\ Analyzed
    /\ Cardinality(Endpoints) > MostConnected
    /\ Len(call.result.most_connected_tables) = MostConnected
    /\ call.result.most_connected_tables[1].count > 1
    /\ FirstMention(call.result.most_connected_tables[1].name) > 2
    /\ call.result.isolated_tables # {}

(***************************************************************************)
(* C27.  Without an embedding capability, or when an embedding call fails, *)
(* select_relevant_tables gives every table semantic score 0: each         *)
(* combined score is 0.6 times the keyword score, and the tables returned  *)
(* are the first top_k of the ranking by keyword score alone (ties in      *)
(* schema order).                                                          *)
(***************************************************************************)
KwOf(t) == keyword_score(call.nl_query, t)

\* t comes before u in the ranking by the keyword scores kw
KwRanksBefore(kw, t, u) ==
    \/ ~KwAtLeast(kw[u], kw[t])
    \/ /\ KwAtLeast(kw[t], kw[u])
       /\ PlaceInSchema(t) < PlaceInSchema(u)

C27_KeywordOnlyWithoutEmbeddings ==
    (Ranked /\ call.emb \in {"off", "failed"}) =>
        LET returned == call.result.tables
            kw == [t \in Range(schema.tables) |-> KwOf(t)]
        IN  /\ \A t \in Range(schema.tables) :
                  ScoreOf(t) = [inter |-> kw[t].inter, norm2 |-> kw[t].norm2, cos |-> 0]
            /\ Len(returned) = Min(call.top_k, Len(schema.tables))
            /\ Range(returned) \subseteq Range(schema.tables)
            /\ \A i, j \in 1..Len(returned) :
                  i < j => KwRanksBefore(kw, returned[i], returned[j])
            /\ \A t \in Range(schema.tables) \ Range(returned) :
                  \A i \in 1..Len(returned) : KwRanksBefore(kw, returned[i], t)

\* an embedding call failed, and the second table of the schema, of the higher
\* keyword score, is the one returned
C27_Witness ==
    /\ Ranked
    /\ call.emb = "failed"
    /\ call.top_k = 1
    /\ Len(schema.tables) = 2
    /\ call.result.tables = <<schema.tables[2]>>
    /\ ~KwAtLeast(KwOf(schema.tables[1]), KwOf(schema.tables[2]))
    /\ KwPositive(KwOf(schema.tables[1]))

(***************************************************************************)
(* C28.  A connect attempt that fails (file not found, invalid database,   *)
(* no tables, failed connection test) answers success = False with an      *)
(* error message and leaves _current_db and _connection_info as they were  *)
(* before the call: a connection established earlier stays in place.       *)
(***************************************************************************)
ConnectCalls == {"connect_to_default_database", "connect_to_custom_database"}

C28_FailedConnectStep ==
    /\ call'.fn \in ConnectCalls
    /\ ~call'.result.success
    /\ \/ \E file \in FileStates : ConnectToDefaultDatabase(file)
       \/ \E db_path \in DatabasePaths, file \in FileStates :
             ConnectToCustomDatabase(db_path, file)

\* every failure kind of the claim ends in a failed response
C28_FailureKindsFail ==
    \A db_path \in DatabasePaths : \A file \in FileStates \ {"usable"} :
        ~connect(db_path, db_path, file).response.success

C28_FailedConnectKeepsTheConnection ==
    [][/\ C28_FailureKindsFail
       /\ (C28_FailedConnectStep =>
              /\ call'.result.error # None
              /\ call'.result.connection_info = <<>>
              /\ current_db' = current_db
              /\ connection_info' = connection_info)]_vars

\* the last call was a failed attempt on another database than the one
\* connected, and the connection and its description are still there
C28_Witness ==
    /\ call.fn = "connect_to_custom_database"
    /\ ~call.result.success
    /\ current_db # <<>>
    /\ current_db[1].path # call.db_path
    /\ connection_info # <<>>
    /\ connection_info[1].tables_count = Len(current_db[1].usable_table_names)

(***************************************************************************)
(* C29.  Every path that find_shortest_join_path returns for start # end   *)
(* is a simple path of the foreign-key graph: it begins with start, ends   *)
(* with end, visits no table twice, and each two consecutive tables are    *)
(* linked by a relationship of the schema in one direction or the other.   *)
(* The search ends on every schema, with cycles and self-references too:   *)
(* every call has a result, a path or None.                                *)
(***************************************************************************)
VisitsNoTableTwice(path) == \A i, j \in 1..Len(path) : i # j => path[i] # path[j]

HasSelfReference(sch) ==
    \E i \in 1..Len(sch.relationships) :
        sch.relationships[i].from_table = sch.relationships[i].to_table

\* two tables that refer to each other
HasCycle(sch) ==
    \E i, j \in 1..Len(sch.relationships) :
        /\ sch.relationships[i].from_table = sch.relationships[j].to_table
        /\ sch.relationships[i].to_table = sch.relationships[j].from_table
        /\ sch.relationships[i].from_table # sch.relationships[i].to_table

C29_ReturnedPathIsSimple ==
    (PathCalled /\ call.start # call.end) =>
        /\ call.result.absent \in BOOLEAN
        /\ call.result.absent => call.result.path = <<>>
        /\ ~call.result.absent =>
              /\ Len(call.result.path) >= 2
              /\ IsPathOf(schema, call.result.path, call.start, call.end)
              /\ VisitsNoTableTwice(call.result.path)

\* a path over a join table, found in a schema with a cycle and a
\* self-referencing foreign key on the way
C29_Witness ==
    /\ PathCalled
    /\ call.start = "D"
    /\ call.end = "B"
    /\ ~call.result.absent
    /\ Len(call.result.path) = 3
    /\ HasSelfReference(schema)
    /\ HasCycle(schema)

(***************************************************************************)
(* C30.  materialize_join_edges applied to a path that                     *)
(* find_shortest_join_path returned on the same schema yields no           *)
(* placeholder: it returns one edge per step of the path, and every edge   *)
(* is a relationship of the schema joining the two tables of its step.     *)
(***************************************************************************)
FoundPathMaterialized == call.fn = "materialize_found_path" /\ ~call.found.absent

C30_FoundPathHasRealEdges ==
    FoundPathMaterialized =>
        LET path == call.found.path
            edges == call.result
        IN  /\ Len(edges) = Len(path) - 1
            /\ \A i \in 1..Len(edges) :
                  /\ edges[i] \in Range(schema.relationships)
                  /\ edges[i] # placeholder(path[i], path[i + 1])
                  /\ edges[i].from_column # "unknown"
                  /\ {edges[i].from_table, edges[i].to_table} = {path[i], path[i + 1]}

\* a path of two steps, the first of them walked against its foreign key, in
\* a schema whose first relationship is not on the path
C30_Witness ==
    /\ FoundPathMaterialized
    /\ Len(call.found.path) = 3
    /\ Len(call.result) = 2
    /\ call.result[1].to_table = call.found.path[1]
    /\ call.result[1].from_table = call.found.path[2]
    /\ schema.relationships[1] \notin Range(call.result)

====
